---- MODULE Spec2Model ----
(***************************************************************************)
(* Verification model of sfeeser/recap:                                   *)
(*   exam/generator.go      GenerateExamsForCourse, GenerateExamPlan,     *)
(*                          selectQuestionsForExam                        *)
(*   ingestion/ingestion.go ProcessCourseData (transaction + regeneration)*)
(*   db/db.go               CreateSchema                                  *)
(*   utils                  ParseDomainWeights, StringPtr, Contains*      *)
(*   handlers               RecordAnswer, SubmitExamSession,              *)
(*                          AdminUpdateSettings, TriggerIngestion         *)
(*   exam/generator.go      UpdateQuestionValidityScores                  *)
(*   main.go                the ingestion and the validity goroutine      *)
(*                                                                        *)
(* Specifications:                                                        *)
(*   Spec       an ingestion and generation pass of one course            *)
(*   SpecPlan   GenerateExamPlan on its own                               *)
(*   SpecParse  ParseDomainWeights on its own                             *)
(*   SpecGrade  one attempt on an exam of one question of every kind      *)
(*   SpecScore  one attempt on exams of several questions                 *)
(*   SpecRound  one attempt on exams of up to MaxTotal questions          *)
(*   SpecConc   concurrent requests on one attempt, statement by statement*)
(*   SpecTwoExams  one attempt beside a second exam of the course         *)
(*   SpecValidity  the validity job over the attempts on one question     *)
(*   SpecIngest    ProcessCourseData file by file, with its validation    *)
(*   SpecOverlap   two passes for one course at the same time             *)
(*   SpecSchedule  the loops of the two background goroutines             *)
(*                                                                        *)
(* The database tables are variables; every statement that the code runs  *)
(* outside a transaction is one step where requests or passes interleave, *)
(* the ingestion transaction is one step (its commit).                    *)
(*                                                                        *)
(* Domain weights are float64 in the code.  The model draws them from the *)
(* dyadic fractions w/WDen, for which float64(q)*weight is exact, so that *)
(* math.Round is modelled without rounding error.  The score arithmetic   *)
(* (a quotient of integers times 100) is not exact in float64 and is      *)
(* modelled bit by bit.                                                   *)
(*                                                                        *)
(* crypto/sha256 and math/rand are libraries: SeedOf and RngNext are small*)
(* deterministic stand-ins with the same interface (a seed that depends on*)
(* the exam index, one generator state that every draw advances).         *)
(*                                                                        *)
(* The tables error_logs and admin_events are written for the operator    *)
(* only; of them the model keeps the events of the scheduled passes.      *)
(*                                                                        *)
(* oldExams, oldExamQuestions, oldBank, lastReq and overwrote are history *)
(* variables.  A nullable column or pointer is <<>> (NULL) or <<value>>.  *)
(***************************************************************************)
EXTENDS Integers, Sequences, FiniteSets, TLC

\* ------------------------------------------------------------------ bounds
\* longest question bank (rows of exam_bank.csv) of the generation model
MaxPool == 4
\* largest min_questions / max_questions of the generation model
MaxQPerExam == 2
\* number of ProcessCourseData passes in one behaviour
MaxRuns == 2
\* most questions of one domain in the planner model
MaxPerDomain == 3
\* largest min_questions / max_questions of the planner model
MaxQPlan == 6

\* denominator of the modelled domain weights (weights are w/WDen)
WDen == 4
\* most name:weight pairs of a domains row given to ParseDomainWeights
MaxPairs == 3
\* most questions of the exam of an attempt: scoring model, rounding model
MaxExamQ == 4
MaxTotal == 40
\* longest choice list of a RecordAnswer request
MaxSel == 2
\* longest text of a RecordAnswer request
MaxTextLen == 2
\* requests that the server handles at the same time
NumHandlers == 2
\* most question rows of exam_bank.csv in the file-by-file model
MaxCsvRows == 2
\* most attempts on the exam of the validity job
MaxAttempts == 11
\* ticks each background job receives in one behaviour
MaxTicks == 2

\* the domain names of the domains row: planner model, generation model
Domains == {"A", "B", "C"}

GenDomains == {"A", "B"}

\* ------------------------------------------------------- library stand-ins
RngMod == 101
RngMul == 37
RngInc == 11
SeedBase == 17
SeedStep == 29

\* sha256("version:name:i") folded to an int64 by BytesToInt
SeedOf(i) == (SeedBase + SeedStep * i) % RngMod

\* one step of the generator behind rand.New(rand.NewSource(seed))
RngNext(s) == (s * RngMul + RngInc) % RngMod

\* ------------------------------------------------------------------ helpers
RECURSIVE SumOver(_, _)
SumOver(f, S) ==
  IF S = {} THEN 0
  ELSE LET d == CHOOSE x \in S : TRUE IN f[d] + SumOver(f, S \ {d})

SeqOfLen(S, n) == [1..n -> S]

SeqsUpTo(S, n) == UNION {SeqOfLen(S, k) : k \in 0..n}

\* the orders in which Go may range over a map with the given keys
Orders(keys) ==
  {o \in SeqOfLen(keys, Cardinality(keys)) :
     \A a, b \in DOMAIN o : a # b => o[a] # o[b]}

Swap(list, a, b) ==
  [k \in DOMAIN list |-> IF k = a THEN list[b] ELSE IF k = b THEN list[a] ELSE list[k]]

\* r.Shuffle(n, swap): for i := n-1; i > 0; i-- { j := r.Intn(i+1); swap(i, j) }
\* k is i+1 (the model's sequences are 1-based)
RECURSIVE Shuffle(_, _, _)
Shuffle(list, rng, k) ==
  IF k <= 1 THEN [list |-> list, rng |-> rng]
  ELSE LET s2 == RngNext(rng)
           j  == (s2 % k) + 1
       IN Shuffle(Swap(list, k, j), s2, k - 1)

\* ------------------------------------------------------- GenerateExamPlan
\* models.ExamPlan{}: the quota map is nil
ZeroPlan ==
  [NumExams |-> 0, QuestionsPerExam |-> 0, PerDomainPerExam |-> <<>>]

\* domainCounts[d], 0 for a domain without questions
domainCounts(qs, d) ==
  Cardinality({k \in DOMAIN qs : qs[k].QuestionDomainName = d})

\* int(math.Round(float64(qPerExam) * weight)), half away from zero, and the
\* floor of one question for a weighted domain
RequiredWithoutFloor(qPerExam, w) ==
  (2 * qPerExam * w + WDen) \div (2 * WDen)

Required(qPerExam, w) ==
  LET r == (2 * qPerExam * w + WDen) \div (2 * WDen)
  IN IF r = 0 /\ w > 0 THEN 1 ELSE r

currentPerDomainPerExam(qPerExam, weights) ==
  [d \in DOMAIN weights |-> Required(qPerExam, weights[d])]

isValidPlanUnchecked(qs, qPerExam, weights) ==
  \A d \in DOMAIN weights : Required(qPerExam, weights[d]) >= 0

isValidPlan(qs, qPerExam, weights) ==
  \A d \in DOMAIN weights : ~(domainCounts(qs, d) < Required(qPerExam, weights[d]))

actualQuestionsInPlan(qPerExam, weights) ==
  SumOver(currentPerDomainPerExam(qPerExam, weights), DOMAIN weights)

\* the value bestRemainder starts from
InitialBestRemainderBug(totalQuestions) == 0

InitialBestRemainder(totalQuestions) == totalQuestions

\* "Criteria: lowest remainder, then highest numExams"
IsBetterBug(rem, num, best) ==
  rem < best.bestRemainder \/ (rem = best.bestRemainder /\ num < best.bestNumExams)

IsBetter(rem, num, best) ==
  rem < best.bestRemainder \/ (rem = best.bestRemainder /\ num > best.bestNumExams)

\* the plan stored for an accepted candidate
CandidatePlanBug(qPerExam, used, num, weights) ==
  [NumExams |-> num, QuestionsPerExam |-> qPerExam,
   PerDomainPerExam |-> currentPerDomainPerExam(qPerExam, weights)]

CandidatePlan(qPerExam, used, num, weights) ==
  [NumExams |-> num, QuestionsPerExam |-> used,
   PerDomainPerExam |-> currentPerDomainPerExam(qPerExam, weights)]

\* the body of the loop "for qPerExam := minQ; qPerExam <= maxQ; qPerExam++"
RECURSIVE PlanLoop(_, _, _, _, _)
PlanLoop(qs, qPerExam, maxQ, weights, best) ==
  IF qPerExam > maxQ THEN best
  ELSE
    LET used == actualQuestionsInPlan(qPerExam, weights)
        next ==
          IF ~isValidPlan(qs, qPerExam, weights) THEN best
          ELSE IF used = 0 THEN best
          ELSE LET num == Len(qs) \div used
                   rem == Len(qs) % used
               IN IF IsBetter(rem, num, best)
                  THEN [bestPlan |-> CandidatePlan(qPerExam, used, num, weights),
                        bestRemainder |-> rem, bestNumExams |-> num]
                  ELSE best
    IN PlanLoop(qs, qPerExam + 1, maxQ, weights, next)

GenerateExamPlan(qs, minQ, maxQ, weights) ==
  LET best == PlanLoop(qs, minQ, maxQ, weights,
                       [bestPlan |-> ZeroPlan,
                        bestRemainder |-> InitialBestRemainder(Len(qs)),
                        bestNumExams |-> 0])
  IN IF best.bestPlan.QuestionsPerExam = 0
     THEN [err |-> TRUE, plan |-> ZeroPlan]
     ELSE [err |-> FALSE, plan |-> best.bestPlan]

\* ------------------------------------------------- selectQuestionsForExam
questionsByDomainAny(allQuestions, d) == allQuestions

questionsByDomain(allQuestions, d) ==
  SelectSeq(allQuestions, LAMBDA q : q.QuestionDomainName = d)

IDsOf(list) == {list[k].ID : k \in DOMAIN list}

\* "for i := 0; i < count; i++ { q := shuffledAvailable[i]; ... }"
TakeFirstRepeat(shuffledAvailable, count) ==
  [k \in 1..count |-> shuffledAvailable[1]]

TakeFirst(shuffledAvailable, count) ==
  [k \in 1..count |-> shuffledAvailable[k]]

\* the body of "for domain, count := range perDomainRequired"; order is the
\* order in which the runtime ranges over the map
RECURSIVE SelectLoop(_, _, _, _, _)
SelectLoop(allQuestions, perDomainRequired, order, idx, st) ==
  IF idx > Len(order) THEN st
  ELSE
    LET domain    == order[idx]
        count     == perDomainRequired[domain]
        available == questionsByDomain(allQuestions, domain)
        filtered  == SelectSeq(available, LAMBDA q : q.ID \notin st.used)
        sh        == Shuffle(filtered, st.rng, Len(filtered))
    IN IF Len(sh.list) < count
       THEN [selected |-> <<>>, used |-> st.used, rng |-> sh.rng, err |-> TRUE]
       ELSE LET cur == TakeFirst(sh.list, count)
            IN SelectLoop(allQuestions, perDomainRequired, order, idx + 1,
                          [selected |-> st.selected \o cur,
                           used |-> st.used \cup IDsOf(cur),
                           rng |-> sh.rng, err |-> FALSE])

selectQuestionsForExam(allQuestions, perDomainRequired, seed, order) ==
  SelectLoop(allQuestions, perDomainRequired, order, 1,
             [selected |-> <<>>, used |-> {}, rng |-> seed, err |-> FALSE])

\* "r := rand.New(rand.NewSource(seed)); r.Shuffle(len(selectedQuestions), ...)"
OrderShuffle(selected, seed) == Shuffle(selected, seed, Len(selected)).list

\* -------------------------------------------------------------------- state
VARIABLES
  bankRows,          \* exam_bank.csv: the domain of every question row
  domainWeights,     \* metadata.Domains, in units of 1/WDen
  minQuestions,      \* metadata.MinQuestions
  maxQuestions,      \* metadata.MaxQuestions
  questions,         \* table questions joined with domains, in id order
  nextQuestionID,    \* SERIAL of questions.id
  exams,             \* table exams of the course and bank version
  exam_questions,    \* table exam_questions
  nextExamID,        \* SERIAL of exams.id
  pc,                \* position of the pass (ProcessCourseData and callee)
  err,               \* which error the pass returned
  plan,              \* GenerateExamsForCourse: plan
  i,                 \* GenerateExamsForCourse: exam index of the loop
  selectedQuestions, \* GenerateExamsForCourse: selectedQuestions
  examID,            \* GenerateExamsForCourse: examID
  qOrder,            \* GenerateExamsForCourse: rows of the exam inserted so far
  runs,              \* passes started so far
  oldExams,          \* history: table exams when the pass started
  oldExamQuestions,  \* history: table exam_questions when the pass started
  domainStr,         \* ParseDomainWeights: the pairs of the domains row
  parseOut,          \* ParseDomainWeights: what the call returned
  examQs,            \* the exam of the attempt: its exam_questions, in order
  otherExamQs,       \* exam_questions of another exam; their ids come next
  passingScore2,     \* exam_banks.passing_score of the exam, in halves
  attempt,           \* the row of exam_attempts
  user_answers,      \* table user_answers of the attempt, by exam question
  clock,             \* time.Now() of the server, a logical clock
  response,          \* body of the last SubmitExamSession response
  answerResp,        \* body of the last RecordAnswer response
  lastReq,           \* history: last request RecordAnswer stored, by question
  overwrote,         \* history: a stored request replaced an earlier answer
  hpc,               \* concurrent requests: position of every handler
  hloc,              \* concurrent requests: locals of every handler
  attemptCounts,     \* validity job: attempts on a one-question exam, by kind
  thresholdSetting,  \* validity job: setting question_validity_threshold
  validity_score,    \* validity job: questions.validity_score of the question
  validityRet,       \* validity job: what the last call returned
  validityLog,       \* validity job: the last line the last call logged
  courseYAML,        \* labs repository: marketing_name of course.yaml
  csvRows,           \* labs repository: question rows of exam_bank.csv
  courses,           \* table courses: the row of the course
  domainsTable,      \* table domains: the names stored for the course
  exam_attempts,     \* table exam_attempts: completed attempts, by exam
  oldBank,           \* history: courses, domains, questions at the call
  gen,               \* overlapping passes: position and locals of every pass
  schedTick,         \* background jobs: ticks each job has received
  schedIdx,          \* background jobs: index of the loop over the courses
  runLog             \* background jobs: admin_events and log lines of the passes

vars == <<bankRows, domainWeights, minQuestions, maxQuestions, questions,
          nextQuestionID, exams, exam_questions, nextExamID, pc, err, plan, i,
          selectedQuestions, examID, qOrder, runs, oldExams, oldExamQuestions,
          domainStr, parseOut, examQs, otherExamQs, passingScore2, attempt,
          user_answers,
          clock, response, answerResp, lastReq, overwrote, hpc, hloc,
          attemptCounts, thresholdSetting, validity_score, validityRet,
          validityLog, courseYAML, csvRows, courses, domainsTable,
          exam_attempts, oldBank, gen, schedTick, schedIdx, runLog>>

\* the variables of ParseDomainWeights and of the exam session handlers
parseVars == <<domainStr, parseOut>>

sessionVars == <<examQs, otherExamQs, passingScore2, attempt, user_answers,
                 clock, response,
                 answerResp, lastReq, overwrote, hpc, hloc>>

\* the exam of the attempt, which no request changes
examVars == <<examQs, otherExamQs, passingScore2>>

\* the variables of UpdateQuestionValidityScores
validityVars == <<attemptCounts, thresholdSetting, validity_score, validityRet,
                  validityLog>>

\* the files of the course and the tables only ProcessCourseData writes
courseVars == <<courseYAML, csvRows, courses, domainsTable, oldBank>>

\* the variables of the background jobs and of the course data
\* overlapping passes and the loops of the two background goroutines
jobVars == <<gen, schedTick, schedIdx, runLog>>

restVars == <<validityVars, courseVars, jobVars>>

inputVars == <<bankRows, domainWeights, minQuestions, maxQuestions>>

localVars == <<plan, i, selectedQuestions, examID, qOrder>>

\* the variables of an ingestion and generation pass
passVars == <<inputVars, questions, nextQuestionID, exams, exam_questions,
              exam_attempts, nextExamID, pc, err, localVars, runs, oldExams, oldExamQuestions>>

\* weights that ParseDomainWeights accepts for a domains row that names the
\* given domains: every weight in [0, 1], the sum 1.0
ValidWeights(keys) == {w \in [keys -> 0..WDen] : SumOver(w, keys) = WDen}

InitTables ==
  /\ questions = <<>>
  /\ exam_attempts = {}
  /\ nextQuestionID = 1
  /\ exams = <<>>
  /\ exam_questions = {}
  /\ nextExamID = 1

InitLocals ==
  /\ err = "none"
  /\ plan = ZeroPlan
  /\ i = 0
  /\ selectedQuestions = <<>>
  /\ examID = 0
  /\ qOrder = 0
  /\ runs = 0
  /\ oldExams = <<>>
  /\ oldExamQuestions = {}

\* no call of ParseDomainWeights, no exam session
NoParse ==
  /\ domainStr = <<>>
  /\ parseOut = <<>>

NoSession ==
  /\ examQs = <<>>
  /\ otherExamQs = <<>>
  /\ passingScore2 = 0
  /\ attempt = [mode |-> "", completed_at |-> <<>>, score_percent |-> <<>>]
  /\ user_answers = {}
  /\ clock = 0
  /\ response = <<>>
  /\ answerResp = <<>>
  /\ lastReq = <<>>
  /\ overwrote = FALSE
  /\ hpc = <<>>
  /\ hloc = <<>>

\* no validity job
NoValidity ==
  /\ attemptCounts = <<>>
  /\ thresholdSetting = <<>>
  /\ validity_score = <<>>
  /\ validityRet = <<>>
  /\ validityLog = ""

NoCourse ==
  /\ courseYAML = ""
  /\ csvRows = <<>>
  /\ courses = <<>>
  /\ domainsTable = {}
  /\ oldBank = <<>>

NoJobs ==
  /\ gen = <<>>
  /\ schedTick = <<>>
  /\ schedIdx = <<>>
  /\ runLog = {}

NoRest == NoValidity /\ NoCourse /\ NoJobs

\* no ingestion or generation pass
NoPass ==
  /\ bankRows = <<>>
  /\ domainWeights = <<>>
  /\ minQuestions = 0
  /\ maxQuestions = 0
  /\ InitTables
  /\ InitLocals
  /\ pc = "idle"

Init ==
  /\ NoParse
  /\ NoRest
  /\ NoSession
  /\ bankRows \in (SeqsUpTo(GenDomains, MaxPool) \ {<<>>})
  /\ domainWeights \in ValidWeights(GenDomains)
  /\ minQuestions \in 1..MaxQPerExam
  /\ maxQuestions \in 1..MaxQPerExam
  /\ InitTables
  /\ InitLocals
  /\ pc = "idle"

\* the pass returns an error
Fail(e) ==
  /\ pc' = "failed"
  /\ err' = e

\* --------------------------------------------------------- ProcessCourseData
\* tx.Commit of the ingestion transaction: the exams, questions and domains of
\* the course are deleted and the rows of the file inserted, in one commit
IngestCommit ==
  /\ pc \in {"idle", "done", "failed"}
  /\ runs < MaxRuns
  /\ runs' = runs + 1
  /\ oldExams' = exams
  /\ oldExamQuestions' = exam_questions
  /\ exams' = <<>>
  /\ exam_questions' = {}
  /\ exam_attempts' = {}
  /\ questions' = [k \in 1..Len(bankRows) |->
                     [ID |-> nextQuestionID + k - 1, QuestionDomainName |-> bankRows[k]]]
  /\ nextQuestionID' = nextQuestionID + Len(bankRows)
  /\ pc' = "fetch"
  /\ err' = "none"
  /\ plan' = ZeroPlan
  /\ i' = 0
  /\ selectedQuestions' = <<>>
  /\ examID' = 0
  /\ qOrder' = 0
  /\ UNCHANGED <<parseVars, restVars, sessionVars, inputVars, nextExamID>>

\* a statement of the ingestion transaction, or its commit, returns an error:
\* the deferred tx.Rollback leaves every table as it was
IngestRollback ==
  /\ pc \in {"idle", "done", "failed"}
  /\ runs < MaxRuns
  /\ runs' = runs + 1
  /\ oldExams' = exams
  /\ oldExamQuestions' = exam_questions
  /\ Fail("database error")
  /\ plan' = ZeroPlan
  /\ i' = 0
  /\ selectedQuestions' = <<>>
  /\ examID' = 0
  /\ qOrder' = 0
  /\ UNCHANGED <<parseVars, restVars, sessionVars, inputVars, exam_attempts, questions, nextQuestionID, exams, exam_questions, nextExamID>>

\* ---------------------------------------------------- GenerateExamsForCourse
\* GetQuestionsByCourseAndVersion, the empty check and GenerateExamPlan
PlanExams ==
  /\ pc = "fetch"
  /\ IF Len(questions) = 0
     THEN Fail("no questions") /\ plan' = plan
     ELSE LET res == GenerateExamPlan(questions, minQuestions, maxQuestions, domainWeights)
          IN IF res.err
             THEN Fail("insufficient questions") /\ plan' = plan
             ELSE /\ plan' = res.plan
                  /\ pc' = "clear"
                  /\ err' = err
  /\ UNCHANGED <<parseVars, restVars, sessionVars, inputVars, exam_attempts, questions, nextQuestionID, exams, exam_questions,
                 nextExamID, i, selectedQuestions, examID, qOrder, runs,
                 oldExams, oldExamQuestions>>

\* where the loop "for i := 0; i < plan.NumExams; i++" goes for index n
LoopAt(n) == IF n < plan.NumExams THEN "select" ELSE "done"

\* the two DELETE statements of one pool.Exec; exam_attempts references
\* exams ON DELETE CASCADE
ClearExisting ==
  /\ pc = "clear"
  /\ exams' = <<>>
  /\ exam_questions' = {}
  /\ exam_attempts' = {}
  /\ i' = 0
  /\ pc' = LoopAt(0)
  /\ UNCHANGED <<parseVars, restVars, sessionVars, inputVars, questions, nextQuestionID, nextExamID, err, plan,
                 selectedQuestions, examID, qOrder, runs, oldExams, oldExamQuestions>>

\* selectQuestionsForExam for exam i and the count check
SelectQuestions ==
  /\ pc = "select"
  /\ \E order \in Orders(DOMAIN plan.PerDomainPerExam) :
       LET res == selectQuestionsForExam(questions, plan.PerDomainPerExam, SeedOf(i), order)
       IN IF res.err
          THEN Fail("not enough unique questions") /\ selectedQuestions' = <<>>
          ELSE IF Len(res.selected) # plan.QuestionsPerExam
          THEN Fail("count mismatch") /\ selectedQuestions' = <<>>
          ELSE /\ selectedQuestions' = res.selected
               /\ pc' = "insert_exam"
               /\ err' = err
  /\ UNCHANGED <<parseVars, restVars, sessionVars, inputVars, exam_attempts, questions, nextQuestionID, exams, exam_questions,
                 nextExamID, plan, i, examID, qOrder, runs, oldExams, oldExamQuestions>>

\* INSERT INTO exams ... RETURNING id, then the order shuffle
InsertExam ==
  /\ pc = "insert_exam"
  /\ examID' = nextExamID
  /\ nextExamID' = nextExamID + 1
  /\ exams' = Append(exams, [id |-> nextExamID, title |-> i + 1])
  /\ selectedQuestions' = OrderShuffle(selectedQuestions, SeedOf(i))
  /\ qOrder' = 0
  /\ pc' = "insert_question"
  /\ UNCHANGED <<parseVars, restVars, sessionVars, inputVars, exam_attempts, questions, nextQuestionID, exam_questions, err, plan,
                 i, runs, oldExams, oldExamQuestions>>

\* UNIQUE (exam_id, question_id) and UNIQUE (exam_id, question_order)
UniqueViolation(row) ==
  \E r \in exam_questions :
    /\ r.exam_id = row.exam_id
    /\ (r.question_id = row.question_id \/ r.question_order = row.question_order)

\* one INSERT INTO exam_questions of "for qOrder, q := range selectedQuestions"
InsertExamQuestion ==
  /\ pc = "insert_question"
  /\ qOrder < Len(selectedQuestions)
  /\ LET row == [exam_id |-> examID,
                 question_id |-> selectedQuestions[qOrder + 1].ID,
                 question_order |-> qOrder + 1]
     IN IF UniqueViolation(row)
        THEN /\ Fail("database error")
             /\ UNCHANGED <<exam_questions, qOrder, i, selectedQuestions, examID>>
        ELSE /\ exam_questions' = exam_questions \cup {row}
             /\ err' = err
             /\ IF qOrder + 1 < Len(selectedQuestions)
                THEN /\ qOrder' = qOrder + 1
                     /\ UNCHANGED <<pc, i, selectedQuestions, examID>>
                ELSE /\ qOrder' = 0
                     /\ i' = i + 1
                     /\ pc' = LoopAt(i + 1)
                     /\ selectedQuestions' = <<>>
                     /\ examID' = 0
  /\ UNCHANGED <<parseVars, restVars, sessionVars, inputVars, exam_attempts, questions, nextQuestionID, exams, nextExamID,
                 plan, runs, oldExams, oldExamQuestions>>

\* a statement of GenerateExamsForCourse returns an error ("if err != nil")
StatementFails ==
  /\ pc \in {"fetch", "clear", "insert_exam", "insert_question"}
  /\ Fail("database error")
  /\ UNCHANGED <<parseVars, restVars, sessionVars, inputVars, exam_attempts, questions, nextQuestionID, exams, exam_questions,
                 nextExamID, localVars, runs, oldExams, oldExamQuestions>>

Next ==
  \/ IngestCommit
  \/ IngestRollback
  \/ PlanExams
  \/ ClearExisting
  \/ SelectQuestions
  \/ InsertExam
  \/ InsertExamQuestion
  \/ StatementFails

Spec == Init /\ [][Next]_vars

\* ------------------------------------------------------ planner on its own
\* GenerateExamPlan reads only the domain of every question: the pool with
\* counts[d] questions of every domain d, in id order
DomainSeq == CHOOSE o \in Orders(Domains) : TRUE

RECURSIVE PoolOfCounts(_, _, _)
PoolOfCounts(counts, idx, pool) ==
  IF idx > Len(DomainSeq) THEN pool
  ELSE PoolOfCounts(counts, idx + 1,
         pool \o [k \in 1..counts[DomainSeq[idx]] |->
                    [ID |-> Len(pool) + k, QuestionDomainName |-> DomainSeq[idx]]])

InitPlan ==
  /\ NoParse
  /\ NoRest
  /\ NoSession
  /\ bankRows = <<>>
  /\ domainWeights \in ValidWeights(Domains)
  /\ minQuestions \in 1..MaxQPlan
  /\ maxQuestions \in 1..MaxQPlan
  /\ \E counts \in [Domains -> 0..MaxPerDomain] :
       questions = PoolOfCounts(counts, 1, <<>>)
  /\ nextQuestionID = Len(questions) + 1
  /\ exams = <<>>
  /\ exam_questions = {}
  /\ exam_attempts = {}
  /\ nextExamID = 1
  /\ InitLocals
  /\ pc = "fetch"

NextPlan == PlanExams

SpecPlan == InitPlan /\ [][NextPlan]_vars

\* ------------------------------------------------------ ParseDomainWeights
\* A string is a sequence of characters.  strings.TrimSpace drops the leading
\* and the trailing white space, strings.ToLower maps every letter.
RECURSIVE TrimLeft(_)
TrimLeft(t) == IF t # <<>> /\ Head(t) = " " THEN TrimLeft(Tail(t)) ELSE t

RECURSIVE TrimRight(_)
TrimRight(t) ==
  IF t # <<>> /\ t[Len(t)] = " " THEN TrimRight(SubSeq(t, 1, Len(t) - 1)) ELSE t

TrimSpace(t) == TrimRight(TrimLeft(t))

ToLowerChar(c) == IF c = "A" THEN "a" ELSE IF c = "B" THEN "b" ELSE c

ToLower(t) == [k \in 1..Len(t) |-> ToLowerChar(t[k])]

\* float64: a number v/WDen, or NaN (strconv.ParseFloat parses "NaN")
FNum(v) == [nan |-> FALSE, v |-> v]

NaN == [nan |-> TRUE, v |-> 0]

FAdd(a, b) == IF a.nan \/ b.nan THEN NaN ELSE FNum(a.v + b.v)

\* every comparison with NaN is false
FLess(a, b) == ~a.nan /\ ~b.nan /\ a.v < b.v

Abs(x) == IF x < 0 THEN -x ELSE x

\* math.Abs(totalWeight-1.0) > 0.01
OffByMoreThanTolerance(total) == ~total.nan /\ 100 * Abs(total.v - WDen) > WDen

\* the names before the colon, as written in the file
RawNames == {<<"A">>, <<" ", "A">>, <<"B">>}

\* what strconv.ParseFloat returns for the text after the colon: an error
\* (<<>>) or a float64
ParsedWeights == {<<>>, <<NaN>>} \cup {<<FNum(v)>> : v \in (-1)..(WDen + 1)}

\* one element of strings.Split(domainStr, "|"): the number of its parts
\* around ":" and, for two parts, the name and the parsed weight
Pairs ==
  {[parts |-> 1, name |-> <<>>, weight |-> <<>>]} \cup
  [parts : {2}, name : RawNames, weight : ParsedWeights]

\* weights[domainName] = weight
MapPut(m, k, v) == [x \in DOMAIN m \cup {k} |-> IF x = k THEN v ELSE m[x]]

ParseOk(weights) == [err |-> FALSE, weights |-> weights]

ParseError == [err |-> TRUE, weights |-> <<>>]

\* the loop over the pairs and the check of the sum after it
RECURSIVE ParseLoop(_, _, _, _)
ParseLoop(pairs, idx, weights, totalWeight) ==
  IF idx > Len(pairs)
  THEN IF OffByMoreThanTolerance(totalWeight) THEN ParseError
       ELSE ParseOk(weights)
  ELSE LET pair == pairs[idx] IN
       IF pair.parts # 2 THEN ParseError
       ELSE IF pair.weight = <<>> THEN ParseError
       ELSE LET weight == pair.weight[1] IN
            IF FLess(weight, FNum(0)) \/ FLess(FNum(WDen), weight)
            THEN ParseError
            ELSE ParseLoop(pairs, idx + 1,
                           MapPut(weights, TrimSpace(pair.name), weight),
                           FAdd(totalWeight, weight))

ParseDomainWeights(pairs) == ParseLoop(pairs, 1, <<>>, FNum(0))

InitParse ==
  /\ NoPass
  /\ NoRest
  /\ NoSession
  /\ domainStr \in (SeqsUpTo(Pairs, MaxPairs) \ {<<>>})
  /\ parseOut = <<>>

\* ingestion calls ParseDomainWeights on the domains row
ParseCall ==
  /\ parseOut = <<>>
  /\ parseOut' = <<ParseDomainWeights(domainStr)>>
  /\ UNCHANGED <<domainStr, restVars, sessionVars, passVars>>

NextParse == ParseCall

SpecParse == InitParse /\ [][NextParse]_vars

\* ------------------------------------------------------------ exam sessions
\* One attempt of one student on one exam.  Exam question k of the exam has
\* exam_questions.id k; its question is a row of questions with its choices
\* (choice questions) or its fill_blank_answers (fillblank).
\* choice_1 .. choice_6 of the bank file, scaled
ChoiceColumns == 3

\* choices.id of the choices of the question behind exam question k
ChoiceIDsOf(k) == ((k - 1) * ChoiceColumns + 1)..(k * ChoiceColumns)

\* an id that is the id of no choice of an exam of n questions
ForeignID(n) == n * ChoiceColumns + 1

\* int32(id): the width of the array elements, scaled (Int32Half is 2^31)
Int32Half == 1024

Int32(id) == ((id + Int32Half) % (2 * Int32Half)) - Int32Half

\* an id of more than 32 bits that int32 maps to the first choice id
WrapID == 1 + 2 * Int32Half

Chars == {" ", "a", "A"}

Texts == SeqsUpTo(Chars, MaxTextLen)

\* utils.StringPtr: nil (<<>>) for the empty string
StringPtr(t) == IF t = <<>> THEN <<>> ELSE <<t>>

Range(list) == {list[k] : k \in DOMAIN list}

ContainsInt(list, x) == \E k \in DOMAIN list : list[k] = x

ContainsString(set, t) == t \in set

\* the acceptable_answers column split at "|", as written in the file: the
\* column is not empty, and the stored rows are unique per question
RawAcceptable ==
  {raw \in SUBSET {<<>>, <<"a">>, <<"A">>, <<" ", "a">>} :
     /\ Cardinality(raw) \in 1..2
     /\ raw # {<<>>}
     /\ \A x, y \in raw : x # y => ToLower(x) # ToLower(y)}

\* rows of fill_blank_answers that ingestion stores for the column
StoredAcceptable(raw) == {ToLower(answer) : answer \in raw}

ChoiceQuestion(type, domain, k, correct) ==
  [question_type |-> type, domain_name |-> domain, choices |-> ChoiceIDsOf(k),
   correct |-> correct, acceptable |-> {}, input_method |-> <<>>]

\* input_method of a fillblank question is "text" or "terminal"
InputMethods == {"text", "terminal"}

FillBlankQuestion(domain, raw, method) ==
  [question_type |-> "fillblank", domain_name |-> domain, choices |-> {},
   correct |-> {}, acceptable |-> StoredAcceptable(raw),
   input_method |-> <<method>>]

\* every question ingestion accepts as the question of exam question k: a
\* choice question has at least one correct choice
QuestionsAt(k, domains) ==
  {ChoiceQuestion(type, d, k, correct) :
     type \in {"single", "multi", "truefalse"}, d \in domains,
     correct \in (SUBSET ChoiceIDsOf(k)) \ {{}}}
  \cup {FillBlankQuestion(d, raw, m) :
          d \in domains, raw \in RawAcceptable, m \in InputMethods}

\* request body of RecordAnswer
Request(choiceIDs, text) == [ChoiceIDs |-> choiceIDs, CommandText |-> text]

\* requests for exam question 1 of an exam of one question: a choice list
\* (with repetitions, foreign and wide ids), a text, or one of each
Requests ==
  LET ids == ChoiceIDsOf(1) \cup {ForeignID(1), WrapID} IN
  {Request(c, <<>>) : c \in SeqsUpTo(ids, MaxSel)}
  \cup {Request(<<>>, t) : t \in Texts}
  \cup {Request(<<id>>, <<ch>>) : id \in ids, ch \in Chars}

\* requests that select the first or the second choice of exam question k
SimpleRequests(k) ==
  {Request(<<id>>, <<>>) :
     id \in {(k - 1) * ChoiceColumns + 1, (k - 1) * ChoiceColumns + 2}}

\* the row RecordAnswer writes
AnswerRow(eq, req) ==
  [exam_question_id |-> eq,
   choice_ids |-> [k \in 1..Len(req.ChoiceIDs) |-> Int32(req.ChoiceIDs[k])],
   text_answer |-> StringPtr(req.CommandText)]

\* INSERT .. ON CONFLICT (attempt_id, exam_question_id) DO UPDATE
UpsertKeepOld(table, row) ==
  IF \E r \in table : r.exam_question_id = row.exam_question_id THEN table
  ELSE table \cup {row}

Upsert(table, row) ==
  {r \in table : r.exam_question_id # row.exam_question_id} \cup {row}

\* LEFT JOIN user_answers: the answer of the exam question, NULLs if none
AnswerOf(table, eq) ==
  IF \E r \in table : r.exam_question_id = eq
  THEN CHOOSE r \in table : r.exam_question_id = eq
  ELSE [exam_question_id |-> eq, choice_ids |-> <<>>, text_answer |-> <<>>]

\* ------------------------------------------------------- SubmitExamSession
IsChoiceType(type) == type \in {"single", "multi", "truefalse"}

\* the loop over choicesFromDB and the verdict for a choice question
GradeChoicesLoose(q, sel) ==
  LET allUserChoicesCorrect == \A c \in q.correct : ContainsInt(sel, c)
      userSelectedAnyIncorrect ==
        \E c \in q.choices \ q.correct : ContainsInt(sel, c)
  IN  allUserChoicesCorrect /\ ~userSelectedAnyIncorrect

GradeChoices(q, sel) ==
  LET allUserChoicesCorrect == \A c \in q.correct : ContainsInt(sel, c)
      userSelectedAnyIncorrect ==
        \E c \in q.choices \ q.correct : ContainsInt(sel, c)
      userSelectedCorrectCount ==
        Cardinality({c \in q.correct : ContainsInt(sel, c)})
  IN  IF q.question_type \in {"single", "truefalse"}
      THEN /\ allUserChoicesCorrect
           /\ ~userSelectedAnyIncorrect
           /\ userSelectedCorrectCount = 1
           /\ Len(sel) = 1
      ELSE /\ allUserChoicesCorrect
           /\ ~userSelectedAnyIncorrect
           /\ userSelectedCorrectCount = Cardinality(q.correct)
           /\ Len(sel) = Cardinality(q.correct)

\* the verdict for a fillblank question
GradeFillBlankExact(q, text) ==
  text # <<>> /\ ContainsString(q.acceptable, text[1])

GradeFillBlank(q, text) ==
  /\ text # <<>>
  /\ ContainsString({ToLower(ans) : ans \in q.acceptable},
                    ToLower(TrimSpace(text[1])))

\* yourAnswerTexts: the selected choices of the question, or the text
YourAnswerTexts(q, answer) ==
  IF IsChoiceType(q.question_type)
  THEN {c \in q.choices : ContainsInt(answer.choice_ids, c)}
  ELSE IF answer.text_answer # <<>> THEN {answer.text_answer[1]} ELSE {}

IsCorrect(q, answer) ==
  IF IsChoiceType(q.question_type) THEN GradeChoices(q, answer.choice_ids)
  ELSE GradeFillBlank(q, answer.text_answer)

\* reportEntry.Result
ResultOfNeverSkipped(q, answer) ==
  IF IsCorrect(q, answer) THEN "correct" ELSE "incorrect"

ResultOf(q, answer) ==
  IF YourAnswerTexts(q, answer) = {} /\ answer.text_answer = <<>>
  THEN "skipped"
  ELSE IF IsCorrect(q, answer) THEN "correct" ELSE "incorrect"

\* ---------------------------------------- RecordAnswer: practice feedback
Min3(a, b, c) ==
  IF a < b THEN (IF a < c THEN a ELSE c) ELSE (IF b < c THEN b ELSE c)

\* utils.LevenshteinDistance: dp[i][j] of the prefixes of lengths i and j
RECURSIVE LevenshteinCell(_, _, _, _)
LevenshteinCell(s1, s2, a, b) ==
  IF a = 0 THEN b
  ELSE IF b = 0 THEN a
  ELSE Min3(LevenshteinCell(s1, s2, a - 1, b) + 1,
            LevenshteinCell(s1, s2, a, b - 1) + 1,
            LevenshteinCell(s1, s2, a - 1, b - 1)
              + (IF s1[a] # s2[b] THEN 1 ELSE 0))

LevenshteinDistance(s1, s2) == LevenshteinCell(s1, s2, Len(s1), Len(s2))

HasPrefix(t, prefix) ==
  Len(t) >= Len(prefix) /\ SubSeq(t, 1, Len(prefix)) = prefix

Contains(t, sub) ==
  \E k \in 1..(Len(t) + 1) :
    k + Len(sub) - 1 <= Len(t) /\ SubSeq(t, k, k + Len(sub) - 1) = sub

\* isCorrect of the feedback for a choice question, from the request's ids
PracticeChoices(q, ids) ==
  LET allUserCorrect == \A c \in q.correct : ContainsInt(ids, c)
      userSelectedAnyIncorrect ==
        \E c \in q.choices \ q.correct : ContainsInt(ids, c)
      correctChoices == q.correct
  IN  IF q.question_type \in {"single", "truefalse"}
      THEN /\ allUserCorrect
           /\ ~userSelectedAnyIncorrect
           /\ Len(ids) = 1
           /\ Cardinality(correctChoices) = 1
      ELSE /\ allUserCorrect
           /\ ~userSelectedAnyIncorrect
           /\ Len(ids) = Cardinality(correctChoices)

\* userAnswerLower
UserAnswerLower(text) == ToLower(TrimSpace(text))

\* isCorrect of the feedback for a fillblank question, from the request's text
PracticeFillBlank(q, text) ==
  ContainsString({ToLower(ans) : ans \in q.acceptable}, UserAnswerLower(text))

\* resp.Hint of a wrong fillblank answer: nil (<<>>) or a hint; the rows of
\* fill_blank_answers come in no stated order, so the hint names any
\* acceptable answer within distance 2
Hints(q, text) ==
  LET u == UserAnswerLower(text) IN
  IF PracticeFillBlank(q, text) THEN {<<>>}
  ELSE IF q.input_method = <<"terminal">>
  THEN IF HasPrefix(u, <<"l", "s">>) /\ ~Contains(u, <<"-", "l">>)
       THEN {<<"ls -l">>}
       ELSE IF HasPrefix(u, <<"c", "a", "t">>)
               /\ ~Contains(u, <<".", "t", "x", "t">>)
       THEN {<<"filename.txt">>}
       ELSE {<<>>}
  ELSE LET near == {acc \in q.acceptable :
                      /\ LevenshteinDistance(u, ToLower(acc)) <= 2
                      /\ Len(u) > 0}
       IN  IF near = {} THEN {<<>>} ELSE {<<ToLower(acc)>> : acc \in near}

\* the bodies RecordAnswer can return for a practice attempt
PracticeResponses(q, req) ==
  IF IsChoiceType(q.question_type)
  THEN {[Correct |-> PracticeChoices(q, req.ChoiceIDs),
         Explanation |-> "explanation",
         ChoiceFeedback |->
           {[ChoiceID |-> c, IsCorrect |-> c \in q.correct,
             Explanation |-> "explain"] : c \in q.choices},
         Hint |-> <<>>]}
  ELSE {[Correct |-> PracticeFillBlank(q, req.CommandText),
         Explanation |-> "explanation",
         ChoiceFeedback |-> {},
         Hint |-> h] : h \in Hints(q, req.CommandText)}

\* gin.H{"saved": true}
SavedResponse == [saved |-> TRUE]

\* the bodies RecordAnswer can return once the answer is stored
AnswerResponsesAlwaysFeedback(mode, q, req) == PracticeResponses(q, req)

AnswerResponses(mode, q, req) ==
  IF mode = "practice" THEN PracticeResponses(q, req) ELSE {SavedResponse}

\* float64 of the scoring arithmetic: a positive number is m / 2^s, m a list
\* of MantissaBits bits that starts with 1; every operation rounds its exact
\* result to the nearest such number, ties to the even mantissa
MantissaBits == 53

\* smallest e with c * 2^e >= t
RECURSIVE NormShift(_, _)
NormShift(c, t) == IF c >= t THEN 0 ELSE 1 + NormShift(2 * c, t)

\* n more bits of the quotient by long division, and the remainder (the
\* invariants rem < t and bits # <<>> are part of the exit test)
RECURSIVE LongDiv(_, _, _, _)
LongDiv(rem, t, n, bits) ==
  IF n = 0 \/ rem >= t \/ Len(bits) = 0 THEN [bits |-> bits, rem |-> rem]
  ELSE LET b == IF 2 * rem >= t THEN 1 ELSE 0 IN
       LongDiv(2 * rem - b * t, t, n - 1, Append(bits, b))

\* bits + 1, an overflow carried into a new leading bit
RECURSIVE IncBits(_, _)
IncBits(bits, idx) ==
  IF idx = 0 THEN <<1>> \o bits
  ELSE IF bits[idx] = 0 THEN [bits EXCEPT ![idx] = 1]
  ELSE IncBits([bits EXCEPT ![idx] = 0], idx - 1)

\* the float nearest to kept.dropped / 2^s, half says that what is dropped
\* is a tie, more that it is above a tie
RoundToFloat(kept, s, half, more) ==
  LET up == more \/ (half /\ kept[Len(kept)] = 1)
      inc == IF up THEN IncBits(kept, Len(kept)) ELSE kept
  IN  IF Len(inc) > MantissaBits
      THEN [m |-> SubSeq(inc, 1, MantissaBits), s |-> s - 1]
      ELSE [m |-> inc, s |-> s]

\* float64(c) / float64(t) for 0 < c <= t
FDivInt(c, t) ==
  LET e == NormShift(c, t)
      first == c * (2 ^ e) - t
      q == LongDiv(first, t, MantissaBits - 1, <<1>>)
  IN  RoundToFloat(q.bits, MantissaBits - 1 + e, 2 * q.rem = t, 2 * q.rem > t)

RECURSIVE BitsOfInt(_)
BitsOfInt(n) == IF n = 0 THEN <<>> ELSE Append(BitsOfInt(n \div 2), n % 2)

RECURSIVE IntOfBits(_)
IntOfBits(bits) ==
  IF bits = <<>> THEN 0
  ELSE 2 * IntOfBits(SubSeq(bits, 1, Len(bits) - 1)) + bits[Len(bits)]

\* the exact product of a bit list and a small integer (the invariants
\* carry <= k and Len(acc) + idx = Len(bits) are part of the exit test)
RECURSIVE MulBits(_, _, _, _, _)
MulBits(bits, idx, k, carry, acc) ==
  IF idx = 0 \/ carry > k \/ Len(acc) + idx # Len(bits)
  THEN BitsOfInt(carry) \o acc
  ELSE LET v == bits[idx] * k + carry IN
       MulBits(bits, idx - 1, k, v \div 2, <<v % 2>> \o acc)

\* x * float64(k) for a small integer k > 0
FMulInt(x, k) ==
  LET prod == MulBits(x.m, Len(x.m), k, 0, <<>>)
      d == Len(prod) - MantissaBits
      dropped == SubSeq(prod, MantissaBits + 1, Len(prod))
      rest == \E j \in 2..d : dropped[j] = 1
  IN  IF d = 0 THEN [m |-> prod, s |-> x.s]
      ELSE RoundToFloat(SubSeq(prod, 1, MantissaBits), x.s - d,
                        dropped[1] = 1 /\ ~rest, dropped[1] = 1 /\ rest)

\* int(math.Round(x)) for 0 < x < 2^MantissaBits: halves away from zero
IntRound(x) ==
  LET n == Len(x.m) - x.s
  IN  IF n < 0 THEN 0
      ELSE IntOfBits(SubSeq(x.m, 1, n))
           + (IF n < Len(x.m) THEN x.m[n + 1] ELSE 0)

\* int(math.Round(float64(c) / float64(t) * 100)), 0 <= c <= t, t > 0
RoundPercent(c, t) ==
  IF c = 0 THEN 0 ELSE IntRound(FMulInt(FDivInt(c, t), 100))

\* int(passingScore), the passing score given in halves
IntOfHalves(p2) == p2 \div 2

\* the response of SubmitExamSession for the rows the scoring query returns
GradeExam(qs, table, passing2) ==
  LET n == Len(qs)
      correctKs == {k \in 1..n : IsCorrect(qs[k], AnswerOf(table, k))}
      correctCount == Cardinality(correctKs)
      domainCorrectCounts ==
        [d \in {qs[k].domain_name : k \in correctKs} |->
           Cardinality({k \in correctKs : qs[k].domain_name = d})]
      domainTotalCounts ==
        [d \in {qs[k].domain_name : k \in 1..n} |->
           Cardinality({k \in 1..n : qs[k].domain_name = d})]
      finalScorePercent == RoundPercent(correctCount, n)
  IN  [ScorePercent |-> finalScorePercent,
       Pass |-> finalScorePercent >= IntOfHalves(passing2),
       DomainBreakdown |->
         [d \in DOMAIN domainCorrectCounts |->
            RoundPercent(domainCorrectCounts[d], domainTotalCounts[d])],
       DetailedReport |-> [k \in 1..n |-> ResultOf(qs[k], AnswerOf(table, k))]]

NotCompleted == attempt.completed_at = <<>>

\* the table holds an answer for the exam question
Conflicts(table, eq) == \E r \in table : r.exam_question_id = eq
\* UPDATE exam_attempts SET completed_at = $1, score_percent = $2
Complete(score) ==
  /\ clock' = clock + 1
  /\ attempt' = [attempt EXCEPT !.completed_at = <<clock + 1>>,
                                 !.score_percent = <<score>>]

\* "SELECT ... FROM exam_questions eq JOIN questions q ... WHERE eq.id = $1":
\* the rows of every exam, by exam question id
ExamQuestionRows == examQs \o otherExamQs

\* RecordAnswer by the owner of the attempt, no other request in flight; a
\* request for a completed attempt (400) or an unknown exam question (404)
\* changes nothing
RecordAnswer(eq, req) ==
  /\ hpc = <<>>
  /\ NotCompleted
  /\ eq \in DOMAIN ExamQuestionRows
  /\ user_answers' = Upsert(user_answers, AnswerRow(eq, req))
  /\ lastReq' = MapPut(lastReq, eq, req)
  /\ overwrote' = (overwrote \/ Conflicts(user_answers, eq))
  /\ \E resp \in AnswerResponses(attempt.mode, ExamQuestionRows[eq], req) :
       answerResp' = <<resp>>
  /\ UNCHANGED <<parseVars, restVars, passVars, examVars, attempt, clock,
                 response, hpc, hloc>>

\* SubmitExamSession by the owner of the attempt, no other request in flight
SubmitExamSession ==
  /\ hpc = <<>>
  /\ NotCompleted
  /\ Len(examQs) > 0
  /\ LET r == GradeExam(examQs, user_answers, passingScore2) IN
       /\ Complete(r.ScorePercent)
       /\ response' = <<r>>
  /\ UNCHANGED <<parseVars, restVars, passVars, examVars, user_answers, answerResp,
                 lastReq, overwrote, hpc, hloc>>

\* passing_score of the bank, in halves: 50, 50.5, 100
PassingScores2 == {100, 101, 200}

\* exam_attempts.mode
Modes == {"practice", "simulation"}

\* the attempt StartExamSession inserts, the mode from the request
NewAttempt(mode) ==
  /\ attempt = [mode |-> mode, completed_at |-> <<>>, score_percent |-> <<>>]
  /\ user_answers = {}
  /\ clock = 0
  /\ response = <<>>
  /\ answerResp = <<>>
  /\ lastReq = <<>>
  /\ overwrote = FALSE

\* grading: an exam of one question, of every kind
InitGrade ==
  /\ NoPass
  /\ NoParse
  /\ NoRest
  /\ \E q \in QuestionsAt(1, {"A"}) : examQs = <<q>>
  /\ otherExamQs = <<>>
  /\ passingScore2 = 100
  /\ \E mode \in Modes : NewAttempt(mode)
  /\ hpc = <<>>
  /\ hloc = <<>>

NextGrade ==
  \/ \E req \in Requests : RecordAnswer(1, req)
  \/ SubmitExamSession

SpecGrade == InitGrade /\ [][NextGrade]_vars

\* --------------------------------------------- an attempt beside a second exam
\* the course has two exams of one question each; the attempt was started on
\* the first
InitTwoExams ==
  /\ NoPass
  /\ NoParse
  /\ NoRest
  /\ \E q \in QuestionsAt(1, {"A"}) : examQs = <<q>>
  /\ \E q \in QuestionsAt(2, {"A"}) : otherExamQs = <<q>>
  /\ passingScore2 = 100
  /\ \E mode \in Modes : NewAttempt(mode)
  /\ hpc = <<>>
  /\ hloc = <<>>

NextTwoExams ==
  \/ \E eq \in 1..2 : \E req \in SimpleRequests(eq) : RecordAnswer(eq, req)
  \/ SubmitExamSession

SpecTwoExams == InitTwoExams /\ [][NextTwoExams]_vars

\* scoring: exams of 1..MaxExamQ single questions whose first choice is the
\* correct one; all questions are of domain A, or only the first is
ScoreExams ==
  UNION {{[k \in 1..n |->
             ChoiceQuestion("single", IF k <= a THEN "A" ELSE "B", k,
                            {(k - 1) * ChoiceColumns + 1})] : a \in {1, n}} :
         n \in 1..MaxExamQ}

InitScore ==
  /\ NoPass
  /\ NoParse
  /\ NoRest
  /\ examQs \in ScoreExams
  /\ otherExamQs = <<>>
  /\ passingScore2 \in PassingScores2
  /\ NewAttempt("simulation")
  /\ hpc = <<>>
  /\ hloc = <<>>

NextScore ==
  \/ \E eq \in 1..MaxExamQ : \E req \in SimpleRequests(eq) : RecordAnswer(eq, req)
  \/ SubmitExamSession

SpecScore == InitScore /\ [][NextScore]_vars

\* ------------------------------------------------------ concurrent requests
\* Every handler runs its statements on the pool one after the other, with
\* no transaction: a step of a handler is one statement (the reads of the
\* exam, which no handler changes, are taken with the statement after them).
Handlers == 1..NumHandlers

IdleLoc ==
  [eq |-> 0, req |-> Request(<<>>, <<>>), mode |-> "", result |-> <<>>]

\* RecordAnswer: SELECT .. FROM exam_attempts and the checks on the row
RA_ReadAttempt(h, eq, req) ==
  /\ hpc[h] = "idle"
  /\ NotCompleted
  /\ eq \in DOMAIN ExamQuestionRows
  /\ hpc' = [hpc EXCEPT ![h] = "ra_store"]
  /\ hloc' = [hloc EXCEPT ![h] = [IdleLoc EXCEPT !.eq = eq, !.req = req,
                                                 !.mode = attempt.mode]]
  /\ UNCHANGED <<parseVars, restVars, passVars, examVars, attempt,
                 user_answers, clock, response, answerResp, lastReq,
                 overwrote>>

\* RecordAnswer: INSERT INTO user_answers .. ON CONFLICT DO UPDATE
RA_Upsert(h) ==
  /\ hpc[h] = "ra_store"
  /\ user_answers' = Upsert(user_answers, AnswerRow(hloc[h].eq, hloc[h].req))
  /\ lastReq' = MapPut(lastReq, hloc[h].eq, hloc[h].req)
  /\ overwrote' = (overwrote \/ Conflicts(user_answers, hloc[h].eq))
  /\ hpc' = [hpc EXCEPT ![h] = "idle"]
  /\ \E resp \in AnswerResponses(hloc[h].mode, ExamQuestionRows[hloc[h].eq],
                                  hloc[h].req) :
       answerResp' = <<resp>>
  /\ hloc' = [hloc EXCEPT ![h] = IdleLoc]
  /\ UNCHANGED <<parseVars, restVars, passVars, examVars, attempt, clock,
                 response>>

\* SubmitExamSession: SELECT .. FROM exam_attempts and the checks on the row
Sub_ReadAttempt(h) ==
  /\ hpc[h] = "idle"
  /\ NotCompleted
  /\ Len(examQs) > 0
  /\ hpc' = [hpc EXCEPT ![h] = "sub_grade"]
  /\ UNCHANGED <<parseVars, restVars, passVars, examVars, attempt,
                 user_answers, clock, response, answerResp, lastReq,
                 overwrote, hloc>>

\* SubmitExamSession: the scoring query and the grading loop
Sub_Grade(h) ==
  /\ hpc[h] = "sub_grade"
  /\ hloc' = [hloc EXCEPT ![h].result =
                <<GradeExam(examQs, user_answers, passingScore2)>>]
  /\ hpc' = [hpc EXCEPT ![h] = "sub_update"]
  /\ UNCHANGED <<parseVars, restVars, passVars, examVars, attempt,
                 user_answers, clock, response, answerResp, lastReq,
                 overwrote>>

\* SubmitExamSession: UPDATE exam_attempts and the response
Sub_Update(h) ==
  /\ hpc[h] = "sub_update"
  /\ Complete(hloc[h].result[1].ScorePercent)
  /\ response' = hloc[h].result
  /\ hpc' = [hpc EXCEPT ![h] = "idle"]
  /\ hloc' = [hloc EXCEPT ![h] = IdleLoc]
  /\ UNCHANGED <<parseVars, restVars, passVars, examVars, user_answers, answerResp,
                 lastReq, overwrote>>

\* an attempt on an exam of one single question, NumHandlers requests at once
InitConc ==
  /\ NoPass
  /\ NoParse
  /\ NoRest
  /\ examQs = <<ChoiceQuestion("single", "A", 1, {1})>>
  /\ otherExamQs = <<>>
  /\ passingScore2 = 100
  /\ NewAttempt("simulation")
  /\ hpc = [h \in Handlers |-> "idle"]
  /\ hloc = [h \in Handlers |-> IdleLoc]

NextConc ==
  \E h \in Handlers :
    \/ \E req \in SimpleRequests(1) : RA_ReadAttempt(h, 1, req)
    \/ RA_Upsert(h)
    \/ Sub_ReadAttempt(h)
    \/ Sub_Grade(h)
    \/ Sub_Update(h)

SpecConc == InitConc /\ [][NextConc]_vars

\* rounding: exams of 1..MaxTotal single questions of one domain; the
\* student answers the questions in order, every answer the correct choice,
\* and submits after any number of them
RoundExams ==
  {[k \in 1..n |->
      ChoiceQuestion("single", "A", k, {(k - 1) * ChoiceColumns + 1})] :
     n \in 1..MaxTotal}

InitRound ==
  /\ NoPass
  /\ NoParse
  /\ NoRest
  /\ examQs \in RoundExams
  /\ otherExamQs = <<>>
  /\ passingScore2 = 100
  /\ NewAttempt("simulation")
  /\ hpc = <<>>
  /\ hloc = <<>>

NextRound ==
  \/ \E eq \in 1..MaxTotal :
       /\ eq = Cardinality(user_answers) + 1
       /\ RecordAnswer(eq, Request(<<(eq - 1) * ChoiceColumns + 1>>, <<>>))
  \/ SubmitExamSession

SpecRound == InitRound /\ [][NextRound]_vars

\* ----------------------------------------- ProcessCourseData, file by file
\* The call on the files of the labs repository: the course upsert on the
\* pool, then the transaction (cleanup, metadata rows, question rows, inserts,
\* commit), then GenerateExamsForCourse.  The transaction is one step.
MarketingNames == {"m1", "m2"}

\* a question row: its domain column and whether a choice is marked correct
CsvRowSet ==
  {[domain |-> "A", correct_1 |-> TRUE], [domain |-> "B", correct_1 |-> TRUE],
   [domain |-> "A", correct_1 |-> FALSE]}

\* the question rows of exam_bank.csv; none is a file of metadata rows only
CsvFiles == SeqsUpTo(CsvRowSet, MaxCsvRows)

Pair(name, v) == [parts |-> 2, name |-> <<name>>, weight |-> <<FNum(v)>>]

\* the domains row: A:1.0, A and B with sum 1.0, A with a sum below 1.0, and
\* a row without a colon
DomainRows ==
  {<<Pair("A", WDen)>>, <<Pair("A", WDen - 1), Pair("B", 1)>>,
   <<Pair("A", WDen - 1)>>, <<[parts |-> 1, name |-> <<>>, weight |-> <<>>]>>}

\* metadata.Domains in the units of the planner
WeightsOf(parsed) ==
  [d \in {name[1] : name \in DOMAIN parsed.weights} |->
     parsed.weights[<<d>>].v]

\* the checks on one question row
RowError(row, names) ==
  IF row.domain \notin names THEN "invalid domain"
  ELSE IF ~row.correct_1 THEN "no correct answer"
  ELSE "none"

\* the validation error the call returns for the files, "none" if it commits
ValidationError(pairs, rows) ==
  IF Len(rows) = 0 THEN "insufficient rows"
  ELSE LET parsed == ParseDomainWeights(pairs) IN
       IF parsed.err THEN "invalid domains"
       ELSE LET names == DOMAIN WeightsOf(parsed)
                bad == {k \in 1..Len(rows) : RowError(rows[k], names) # "none"}
            IN  IF bad = {} THEN "none"
                ELSE RowError(rows[CHOOSE k \in bad : \A j \in bad : k <= j],
                              names)

\* the errors for malformed or wrongly summing domain weights, for a question
\* of an unknown domain and for a choice question without a correct marker
ValidationErrors == {"invalid domains", "invalid domain", "no correct answer"}

\* course.yaml is read and the course upserted, on the pool
UpsertCourse ==
  /\ pc \in {"idle", "done", "failed"}
  /\ runs < MaxRuns
  /\ runs' = runs + 1
  /\ oldExams' = exams
  /\ oldExamQuestions' = exam_questions
  /\ oldBank' = <<[courses |-> courses, domainsTable |-> domainsTable,
                   questions |-> questions]>>
  /\ courses' = <<[marketing_name |-> courseYAML]>>
  /\ pc' = "tx"
  /\ err' = "none"
  /\ plan' = ZeroPlan
  /\ i' = 0
  /\ selectedQuestions' = <<>>
  /\ examID' = 0
  /\ qOrder' = 0
  /\ UNCHANGED <<parseVars, jobVars, validityVars, sessionVars, inputVars, courseYAML,
                 csvRows, domainsTable, questions, nextQuestionID, exams,
                 exam_questions, exam_attempts, nextExamID>>

\* exam_bank.csv is read and the transaction runs: a validation error
\* returns and the deferred tx.Rollback undoes the cleanup; otherwise the
\* commit replaces domains and questions and deletes the exams of the course
IngestTransaction ==
  /\ pc = "tx"
  /\ LET e == ValidationError(domainStr, csvRows) IN
     IF e # "none"
     THEN /\ Fail(e)
          /\ UNCHANGED <<domainWeights, domainsTable, questions,
                         nextQuestionID, exams, exam_questions, exam_attempts>>
     ELSE /\ domainWeights' = WeightsOf(ParseDomainWeights(domainStr))
          /\ domainsTable' = DOMAIN WeightsOf(ParseDomainWeights(domainStr))
          /\ questions' = [k \in 1..Len(csvRows) |->
                             [ID |-> nextQuestionID + k - 1,
                              QuestionDomainName |-> csvRows[k].domain]]
          /\ nextQuestionID' = nextQuestionID + Len(csvRows)
          /\ exams' = <<>>
          /\ exam_questions' = {}
          /\ exam_attempts' = {}
          /\ pc' = "fetch"
          /\ err' = err
  /\ UNCHANGED <<parseVars, jobVars, validityVars, sessionVars, bankRows, minQuestions,
                 maxQuestions, courseYAML, csvRows, courses, oldBank,
                 nextExamID, localVars, runs, oldExams, oldExamQuestions>>

\* a statement of the transaction, or its commit, returns an error
TransactionFails ==
  /\ pc = "tx"
  /\ Fail("database error")
  /\ UNCHANGED <<parseVars, restVars, sessionVars, inputVars, questions,
                 nextQuestionID, exams, exam_questions, exam_attempts,
                 nextExamID, localVars, runs, oldExams, oldExamQuestions>>

\* a file of the course changes in the labs repository before a later call:
\* course.yaml, the domains row or the question rows of exam_bank.csv
EditFiles ==
  /\ pc \in {"idle", "done", "failed"}
  /\ runs < MaxRuns
  /\ \/ /\ courseYAML' \in MarketingNames \ {courseYAML}
        /\ UNCHANGED <<domainStr, csvRows>>
     \/ /\ domainStr' \in DomainRows \ {domainStr}
        /\ UNCHANGED <<courseYAML, csvRows>>
     \/ /\ csvRows' \in CsvFiles \ {csvRows}
        /\ UNCHANGED <<courseYAML, domainStr>>
  /\ UNCHANGED <<parseOut, jobVars, validityVars, sessionVars, passVars, courses,
                 domainsTable, oldBank>>

\* a student starts an attempt on a stored exam and submits it, between two
\* calls
StudentCompletes(e) ==
  /\ pc \in {"idle", "done", "failed"}
  /\ \E x \in DOMAIN exams : exams[x].id = e
  /\ \E r \in exam_questions : r.exam_id = e
  /\ [exam_id |-> e, score_percent |-> 100] \notin exam_attempts
  /\ exam_attempts' = exam_attempts \cup {[exam_id |-> e, score_percent |-> 100]}
  /\ UNCHANGED <<parseVars, restVars, sessionVars, inputVars, questions,
                 nextQuestionID, exams, exam_questions, nextExamID, pc, err,
                 localVars, runs, oldExams, oldExamQuestions>>

InitIngest ==
  /\ NoValidity
  /\ NoJobs
  /\ NoSession
  /\ parseOut = <<>>
  /\ domainStr \in DomainRows
  /\ courseYAML \in MarketingNames
  /\ csvRows \in CsvFiles
  /\ courses = <<>>
  /\ domainsTable = {}
  /\ oldBank = <<>>
  /\ bankRows = <<>>
  /\ domainWeights = <<>>
  /\ minQuestions = 1
  /\ maxQuestions \in 1..MaxQPerExam
  /\ InitTables
  /\ InitLocals
  /\ pc = "idle"

NextIngest ==
  \/ UpsertCourse
  \/ IngestTransaction
  \/ TransactionFails
  \/ EditFiles
  \/ \E e \in 1..(MaxRuns * MaxCsvRows) : StudentCompletes(e)
  \/ PlanExams
  \/ ClearExisting
  \/ SelectQuestions
  \/ InsertExam
  \/ InsertExamQuestion
  \/ StatementFails

SpecIngest == InitIngest /\ [][NextIngest]_vars

\* ------------------------------------------ UpdateQuestionValidityScores
\* The daily job on the attempts of one exam of one single question.  An
\* attempt is open (an answer stored, not submitted), or completed as skipped
\* (no answer, score 0), wrong (score 0) or right (score 100).
Kinds == {"open", "skipped", "wrong", "right"}

\* values of the setting question_validity_threshold: a number of
\* hundredths, or "Inf"; no row or an unparsable value (<<>>) reads as 0.25
Hundredths(c) == [inf |-> FALSE, hundredths |-> c]

Infinite == [inf |-> TRUE, hundredths |-> 0]

ThresholdSettings ==
  {<<>>, <<Infinite>>} \cup {<<Hundredths(c)>> : c \in {0, 5, 25, 50, 100}}

DefaultThreshold == Hundredths(25)

\* len(allAttempts) < 10
MinAttempts == 10

TooFewAttemptsNever(n) == FALSE

TooFewAttempts(n) == n < MinAttempts

\* int(x) for a float 0 < x < 2^MantissaBits: the fraction is dropped
IntTrunc(x) ==
  LET n == Len(x.m) - x.s
  IN  IF n <= 0 THEN 0 ELSE IntOfBits(SubSeq(x.m, 1, n))

\* int(float64(numAttempts) * threshold); the conversion of an infinite
\* product is not defined by the language: the smallest or the largest int
BottomIndexes(numAttempts, setting) ==
  LET threshold == IF setting = <<>> THEN DefaultThreshold ELSE setting[1] IN
  IF threshold.inf THEN {0 - 2 ^ 30, 2 ^ 30}
  ELSE IF threshold.hundredths = 0 \/ numAttempts = 0 THEN {0}
  ELSE {IntTrunc(FMulInt(FDivInt(threshold.hundredths, 100), numAttempts))}

\* the rows of the attempts query, in score order
CompletedCount(counts) == counts["skipped"] + counts["wrong"] + counts["right"]

\* the attempts at the indices below bottom, by kind: the attempts of score
\* 0 come first, in any order
LowGroups(counts, bottom) ==
  LET zeros == counts["skipped"] + counts["wrong"]
      size == IF bottom < 0 THEN 0 ELSE bottom
  IN  IF size >= zeros
      THEN {[skipped |-> counts["skipped"], wrong |-> counts["wrong"],
             right |-> IF size - zeros < counts["right"] THEN size - zeros
                       ELSE counts["right"]]}
      ELSE {[skipped |-> sk, wrong |-> size - sk, right |-> 0] :
              sk \in {x \in 0..counts["skipped"] :
                        size - x \in 0..counts["wrong"]}}

GroupSize(g) == g.skipped + g.wrong + g.right

\* the value the UPDATE computes for the question: a difference of two
\* quotients as numerator and denominator, NULL if a group has no answer
ValidityOf(counts, low) ==
  LET low_correct_count == low.right
      low_attempt_count == low.wrong + low.right
      high_correct_count == counts["right"] - low.right
      high_attempt_count ==
        (counts["wrong"] - low.wrong) + (counts["right"] - low.right)
  IN  IF high_attempt_count = 0 \/ low_attempt_count = 0 THEN <<>>
      ELSE <<high_correct_count * low_attempt_count
               - low_correct_count * high_attempt_count,
             high_attempt_count * low_attempt_count>>

\* the question has a row in QuestionPerformance
HasPerformanceRow(counts) ==
  counts["open"] + counts["wrong"] + counts["right"] > 0

ValidityReturn(ret, line) ==
  /\ validityRet' = <<ret>>
  /\ validityLog' = line

UpdateQuestionValidityScores ==
  /\ attemptCounts # <<>>
  /\ LET numAttempts == CompletedCount(attemptCounts) IN
     IF TooFewAttempts(numAttempts)
     THEN /\ ValidityReturn("nil", "Not enough exam attempts")
          /\ UNCHANGED validity_score
     ELSE \E bottom25PercentIndex \in
               BottomIndexes(numAttempts, thresholdSetting) :
          \E low \in LowGroups(attemptCounts, bottom25PercentIndex) :
            IF GroupSize(low) = 0 \/ numAttempts - GroupSize(low) = 0
            THEN /\ ValidityReturn("nil", "Insufficient high/low scoring")
                 /\ UNCHANGED validity_score
            ELSE \/ /\ ValidityReturn("nil", "completed")
                    /\ validity_score' =
                         IF HasPerformanceRow(attemptCounts)
                         THEN ValidityOf(attemptCounts, low)
                         ELSE validity_score
                 \/ /\ ValidityReturn("error", "Calculating validity")
                    /\ UNCHANGED validity_score
  /\ UNCHANGED <<parseVars, jobVars, courseVars, passVars,
                 sessionVars, attemptCounts,
                 thresholdSetting>>

\* a student stores an answer (open) or submits an attempt
AttemptRecorded(kind) ==
  /\ attemptCounts # <<>>
  /\ SumOver(attemptCounts, Kinds) < MaxAttempts
  /\ attemptCounts' = [attemptCounts EXCEPT ![kind] = @ + 1]
  /\ UNCHANGED <<parseVars, jobVars, courseVars, passVars,
                 sessionVars, thresholdSetting,
                 validity_score, validityRet, validityLog>>

\* AdminUpdateSettings: UPDATE settings SET value = $1, any text
AdminUpdateSettings(setting) ==
  /\ attemptCounts # <<>>
  /\ thresholdSetting' = setting
  /\ UNCHANGED <<parseVars, jobVars, courseVars, passVars,
                 sessionVars, attemptCounts,
                 validity_score, validityRet, validityLog>>

InitValidity ==
  /\ NoPass
  /\ NoJobs
  /\ NoCourse
  /\ NoParse
  /\ NoSession
  /\ attemptCounts = [k \in Kinds |-> 0]
  /\ thresholdSetting = <<DefaultThreshold>>
  /\ validity_score = <<>>
  /\ validityRet = <<>>
  /\ validityLog = ""

NextValidity ==
  \/ \E kind \in Kinds : AttemptRecorded(kind)
  \/ \E setting \in ThresholdSettings : AdminUpdateSettings(setting)
  \/ UpdateQuestionValidityScores

SpecValidity == InitValidity /\ [][NextValidity]_vars

\* ------------------------------------------ two passes for the same course
\* the goroutine of main and a TriggerIngestion request both call
\* ProcessCourseData for the course; nothing in either caller holds a lock
Runs == {"scheduled", "manual"}

StartRun ==
  [pc |-> "start", questions |-> <<>>, plan |-> ZeroPlan, i |-> 0,
   selectedQuestions |-> <<>>, examID |-> 0, qOrder |-> 0]

RunFails(p) == gen' = [gen EXCEPT ![p].pc = "failed"]

\* the ingestion transaction of pass p commits: the cleanup and the inserts
\* of the questions of exam_bank.csv
RunIngest(p) ==
  /\ gen[p].pc = "start"
  /\ exams' = <<>>
  /\ exam_questions' = {}
  /\ exam_attempts' = {}
  /\ questions' = [k \in 1..Len(bankRows) |->
                     [ID |-> nextQuestionID + k - 1, QuestionDomainName |-> bankRows[k]]]
  /\ nextQuestionID' = nextQuestionID + Len(bankRows)
  /\ gen' = [gen EXCEPT ![p].pc = "fetch"]
  /\ UNCHANGED <<parseVars, validityVars, courseVars, sessionVars, inputVars,
                 nextExamID, pc, err, localVars, runs, oldExams,
                 oldExamQuestions, schedTick, schedIdx, runLog>>

\* GetQuestionsByCourseAndVersion, the empty check and GenerateExamPlan
RunPlan(p) ==
  /\ gen[p].pc = "fetch"
  /\ IF Len(questions) = 0
     THEN RunFails(p)
     ELSE LET res == GenerateExamPlan(questions, minQuestions, maxQuestions, domainWeights)
          IN IF res.err
             THEN RunFails(p)
             ELSE gen' = [gen EXCEPT ![p].pc = "clear",
                                     ![p].questions = questions,
                                     ![p].plan = res.plan]
  /\ UNCHANGED <<parseVars, validityVars, courseVars, sessionVars, passVars,
                 schedTick, schedIdx, runLog>>

RunLoopAt(p, n) == IF n < gen[p].plan.NumExams THEN "insert_exam" ELSE "done"

\* the two DELETE statements of one pool.Exec
RunClear(p) ==
  /\ gen[p].pc = "clear"
  /\ exams' = <<>>
  /\ exam_questions' = {}
  /\ exam_attempts' = {}
  /\ gen' = [gen EXCEPT ![p].pc = RunLoopAt(p, 0), ![p].i = 0]
  /\ UNCHANGED <<parseVars, validityVars, courseVars, sessionVars, inputVars,
                 questions, nextQuestionID, nextExamID, pc, err, localVars,
                 runs, oldExams, oldExamQuestions, schedTick, schedIdx, runLog>>

\* selectQuestionsForExam for exam i, the count check, INSERT INTO exams
\* and the order shuffle
RunInsertExam(p) ==
  /\ gen[p].pc = "insert_exam"
  /\ \E order \in Orders(DOMAIN gen[p].plan.PerDomainPerExam) :
       LET res == selectQuestionsForExam(gen[p].questions,
                                         gen[p].plan.PerDomainPerExam,
                                         SeedOf(gen[p].i), order)
       IN IF res.err \/ Len(res.selected) # gen[p].plan.QuestionsPerExam
          THEN /\ RunFails(p)
               /\ UNCHANGED <<exams, nextExamID>>
          ELSE /\ exams' = Append(exams, [id |-> nextExamID, title |-> gen[p].i + 1])
               /\ nextExamID' = nextExamID + 1
               /\ gen' = [gen EXCEPT
                            ![p].pc = "insert_question",
                            ![p].examID = nextExamID,
                            ![p].selectedQuestions =
                               OrderShuffle(res.selected, SeedOf(gen[p].i)),
                            ![p].qOrder = 0]
  /\ UNCHANGED <<parseVars, validityVars, courseVars, sessionVars, inputVars,
                 questions, nextQuestionID, exam_questions, exam_attempts, pc,
                 err, localVars, runs, oldExams, oldExamQuestions, schedTick,
                 schedIdx, runLog>>

\* the foreign keys of exam_questions: the exam and the question are stored
ForeignKeyViolation(row) ==
  \/ ~\E x \in DOMAIN exams : exams[x].id = row.exam_id
  \/ ~\E k \in DOMAIN questions : questions[k].ID = row.question_id

\* INSERT INTO exam_questions for the next selected question
RunInsertExamQuestion(p) ==
  /\ gen[p].pc = "insert_question"
  /\ gen[p].qOrder < Len(gen[p].selectedQuestions)
  /\ LET row == [exam_id |-> gen[p].examID,
                 question_id |-> gen[p].selectedQuestions[gen[p].qOrder + 1].ID,
                 question_order |-> gen[p].qOrder + 1]
     IN IF ForeignKeyViolation(row) \/ UniqueViolation(row)
        THEN RunFails(p) /\ UNCHANGED exam_questions
        ELSE /\ exam_questions' = exam_questions \cup {row}
             /\ IF gen[p].qOrder + 1 < Len(gen[p].selectedQuestions)
                THEN gen' = [gen EXCEPT ![p].qOrder = gen[p].qOrder + 1]
                ELSE gen' = [gen EXCEPT
                              ![p].qOrder = 0,
                              ![p].i = gen[p].i + 1,
                              ![p].pc = RunLoopAt(p, gen[p].i + 1),
                              ![p].selectedQuestions = <<>>,
                              ![p].examID = 0]
  /\ UNCHANGED <<parseVars, validityVars, courseVars, sessionVars, inputVars,
                 questions, nextQuestionID, exams, exam_attempts, nextExamID,
                 pc, err, localVars, runs, oldExams, oldExamQuestions,
                 schedTick, schedIdx, runLog>>

InitOverlap ==
  /\ NoParse
  /\ NoSession
  /\ NoValidity
  /\ NoCourse
  /\ bankRows \in (SeqsUpTo(GenDomains, MaxPool) \ {<<>>})
  /\ domainWeights \in ValidWeights(GenDomains)
  /\ minQuestions \in 1..MaxQPerExam
  /\ maxQuestions \in 1..MaxQPerExam
  /\ InitTables
  /\ InitLocals
  /\ pc = "idle"
  /\ gen = [p \in Runs |-> StartRun]
  /\ schedTick = <<>>
  /\ schedIdx = <<>>
  /\ runLog = {}

NextOverlap ==
  \E p \in Runs :
    \/ RunIngest(p)
    \/ RunPlan(p)
    \/ RunClear(p)
    \/ RunInsertExam(p)
    \/ RunInsertExamQuestion(p)

SpecOverlap == InitOverlap /\ [][NextOverlap]_vars

\* ------------------------------------------- the two goroutines of main
\* what GetAllCourseCodes returns
CourseCodes == <<"c1", "c2">>

Jobs == {"ingestion", "validity"}

\* the targets of the passes of one tick
Targets(job) == IF job = "ingestion" THEN CourseCodes ELSE <<"all_questions">>

\* db.LogAdminEvent(pool, "system", event, target, ...) and its log line
LogEntry(job, k, ok) ==
  [tick |-> schedTick[job], target |-> Targets(job)[k], ok |-> ok]

\* after pass k of n returned: the body of the loop has no retry, the next
\* course follows whatever the pass returned, and after the last one the
\* goroutine waits for the ticker
AfterPassRetrying(k, n, ok) == IF ~ok THEN k ELSE IF k < n THEN k + 1 ELSE 0

AfterPass(k, n, ok) == IF k < n THEN k + 1 ELSE 0

\* "for range ticker.C" delivers a tick to the ingestion goroutine, which
\* lists the courses; when the query fails it logs and waits again
IngestionTick ==
  /\ schedIdx["ingestion"] = 0
  /\ schedTick["ingestion"] < MaxTicks
  /\ schedTick' = [schedTick EXCEPT !["ingestion"] = @ + 1]
  /\ \E listed \in BOOLEAN :
       schedIdx' = [schedIdx EXCEPT !["ingestion"] = IF listed THEN 1 ELSE 0]
  /\ UNCHANGED <<parseVars, validityVars, courseVars, sessionVars, passVars,
                 gen, runLog>>

\* ProcessCourseData for the next course of the tick returns ok or an error
IngestionPass ==
  /\ schedIdx["ingestion"] > 0
  /\ \E ok \in BOOLEAN :
       LET k == schedIdx["ingestion"] IN
         /\ runLog' = [runLog EXCEPT !["ingestion"] =
                         Append(@, LogEntry("ingestion", k, ok))]
         /\ schedIdx' = [schedIdx EXCEPT !["ingestion"] =
                           AfterPass(k, Len(CourseCodes), ok)]
  /\ UNCHANGED <<parseVars, validityVars, courseVars, sessionVars, passVars,
                 gen, schedTick>>

\* the daily ticker delivers a tick to the validity goroutine
ValidityTick ==
  /\ schedIdx["validity"] = 0
  /\ schedTick["validity"] < MaxTicks
  /\ schedTick' = [schedTick EXCEPT !["validity"] = @ + 1]
  /\ schedIdx' = [schedIdx EXCEPT !["validity"] = 1]
  /\ UNCHANGED <<parseVars, validityVars, courseVars, sessionVars, passVars,
                 gen, runLog>>

\* exam.UpdateQuestionValidityScores returns nil or an error
ValidityPass ==
  /\ schedIdx["validity"] > 0
  /\ \E ok \in BOOLEAN :
       /\ runLog' = [runLog EXCEPT !["validity"] =
                       Append(@, LogEntry("validity", 1, ok))]
       /\ schedIdx' = [schedIdx EXCEPT !["validity"] = AfterPass(1, 1, ok)]
  /\ UNCHANGED <<parseVars, validityVars, courseVars, sessionVars, passVars,
                 gen, schedTick>>

InitSchedule ==
  /\ NoPass
  /\ NoParse
  /\ NoSession
  /\ NoValidity
  /\ NoCourse
  /\ gen = <<>>
  /\ schedTick = [job \in Jobs |-> 0]
  /\ schedIdx = [job \in Jobs |-> 0]
  /\ runLog = [job \in Jobs |-> <<>>]

IngestionJob == IngestionTick \/ IngestionPass

ValidityJob == ValidityTick \/ ValidityPass

NextSchedule ==
  \/ IngestionTick
  \/ IngestionPass
  \/ ValidityTick
  \/ ValidityPass

\* each goroutine keeps running: its ticker fires and its pass returns
SpecSchedule ==
  /\ InitSchedule
  /\ [][NextSchedule]_vars
  /\ WF_vars(IngestionJob)
  /\ WF_vars(ValidityJob)

\* -------------------------------------------------------------- properties
\* the pass holds a plan that GenerateExamPlan returned
HasPlan == pc \in {"clear", "select", "insert_exam", "insert_question", "done"}

\* GenerateExamPlan returned its error
PlanFailed == pc = "failed" /\ err = "insufficient questions"

\* GenerateExamPlan was called and returned (planner model: the only step)
PlanCalled == runs = 0 /\ pc # "fetch" /\ Len(questions) > 0

\* section 4.2 of the specification: candidate q is feasible
Feasible(q) ==
  /\ \A d \in DOMAIN domainWeights :
       domainCounts(questions, d) >= Required(q, domainWeights[d])
  /\ actualQuestionsInPlan(q, domainWeights) > 0

Candidates == {q \in minQuestions..maxQuestions : Feasible(q)}

RemOf(q) == Len(questions) % actualQuestionsInPlan(q, domainWeights)

NumOf(q) == Len(questions) \div actualQuestionsInPlan(q, domainWeights)

\* smallest remainder, ties broken by the largest numExams
BestCandidates ==
  {q \in Candidates :
     \A p \in Candidates :
       RemOf(q) < RemOf(p) \/ (RemOf(q) = RemOf(p) /\ NumOf(q) >= NumOf(p))}

\* C7: a returned plan has QuestionsPerExam within [minQuestions, maxQuestions]
C7_QuestionsPerExamInRange ==
  HasPlan => (minQuestions <= plan.QuestionsPerExam /\ plan.QuestionsPerExam <= maxQuestions)

\* C8: the returned plan is the plan of a feasible candidate of smallest
\* remainder and, among those, of largest numExams
C8_BestCandidateChosen ==
  HasPlan =>
    \E q \in BestCandidates :
      /\ plan.NumExams = NumOf(q)
      /\ plan.QuestionsPerExam = actualQuestionsInPlan(q, domainWeights)
      /\ plan.PerDomainPerExam = currentPerDomainPerExam(q, domainWeights)

\* a plan was chosen among candidates that tie on the remainder and differ in
\* numExams
C8_Witness ==
  /\ HasPlan
  /\ \E p, q \in Candidates : RemOf(p) = RemOf(q) /\ NumOf(p) # NumOf(q)
  /\ \E p \in Candidates : p \notin BestCandidates

\* C9: the quotas of a returned plan sum to QuestionsPerExam, which is positive
C9_QuotasSumToQuestionsPerExam ==
  HasPlan =>
    /\ SumOver(plan.PerDomainPerExam, DOMAIN plan.PerDomainPerExam) = plan.QuestionsPerExam
    /\ plan.QuestionsPerExam > 0

\* a plan whose size is not the candidate it came from (rounding moved it)
C9_Witness ==
  /\ HasPlan
  /\ \A q \in minQuestions..maxQuestions : plan.QuestionsPerExam # q

\* C10: the "insufficient questions" error is returned exactly when no
\* candidate of [minQuestions, maxQuestions] is feasible, a plan otherwise
C10_ErrorIffNoFeasibleCandidate ==
  /\ PlanFailed => Candidates = {}
  /\ HasPlan => Candidates # {}
  /\ PlanCalled => (PlanFailed \/ HasPlan)

\* the error for a non-empty range in which every candidate lacks questions
C10_Witness ==
  /\ PlanFailed
  /\ minQuestions <= maxQuestions
  /\ Len(questions) >= minQuestions

\* the rows of exam_questions of exam e
RowsOf(e) == {r \in exam_questions : r.exam_id = e}

\* the domain of the question with identifier id
DomainOfID(id) ==
  questions[CHOOSE k \in DOMAIN questions : questions[k].ID = id].QuestionDomainName

ExamIDs == {exams[k].id : k \in DOMAIN exams}

\* plan.PerDomainPerExam[d], 0 for a domain that is not a key of the map
QuotaOf(d) ==
  IF d \in DOMAIN plan.PerDomainPerExam THEN plan.PerDomainPerExam[d] ELSE 0

\* C1: no question identifier is in the question lists of two different exams
\* of one generation run
C1_NoReuseAcrossExams ==
  \A r1, r2 \in exam_questions :
    r1.question_id = r2.question_id => r1.exam_id = r2.exam_id

\* C2: the list selectQuestionsForExam returns, and every persisted exam,
\* holds no question identifier twice
C2_NoRepeatWithinExam ==
  /\ \A a, b \in DOMAIN selectedQuestions :
       selectedQuestions[a].ID = selectedQuestions[b].ID => a = b
  /\ \A r1, r2 \in exam_questions :
       (r1.exam_id = r2.exam_id /\ r1.question_id = r2.question_id) => r1 = r2

\* a selection of two questions of one domain is being persisted
C2_Witness ==
  /\ pc = "insert_question"
  /\ qOrder >= 1
  /\ \E d \in DOMAIN plan.PerDomainPerExam : plan.PerDomainPerExam[d] >= 2

\* C3: every exam of a successful run has exactly plan.QuestionsPerExam
\* questions and, of every domain, exactly the plan's quota
C3_ExamsMatchPlan ==
  pc = "done" =>
    \A e \in ExamIDs :
      /\ Cardinality(RowsOf(e)) = plan.QuestionsPerExam
      /\ \A d \in Domains :
           Cardinality({r \in RowsOf(e) : DomainOfID(r.question_id) = d})
             = QuotaOf(d)

\* a successful run of two exams or more that draw on two domains or more
C3_Witness ==
  /\ pc = "done"
  /\ Len(exams) >= 2
  /\ Cardinality({d \in Domains : QuotaOf(d) > 0}) >= 2

\* C4: the selection of exam i is the same whatever order the quota map is
\* ranged over
C4_SelectionIndependentOfMapOrder ==
  pc = "insert_exam" =>
    \A order \in Orders(DOMAIN plan.PerDomainPerExam) :
      selectedQuestions =
        selectQuestionsForExam(questions, plan.PerDomainPerExam, SeedOf(i), order).selected

\* the exams of the course are a complete set of the plan of this pass
CompleteNewSet ==
  /\ HasPlan
  /\ Len(exams) = plan.NumExams
  /\ \A e \in ExamIDs : Cardinality(RowsOf(e)) = plan.QuestionsPerExam

\* C5: a reader sees the complete old exam set or the complete new one
C5_AtomicReplacement ==
  \/ (exams = oldExams /\ exam_questions = oldExamQuestions)
  \/ CompleteNewSet

\* C6: a pass that fails leaves exams and exam_questions as they were when it
\* started
C6_FailedPassCommitsNothing ==
  pc = "failed" => (exams = oldExams /\ exam_questions = oldExamQuestions)

\* the sum of the weights of a returned map, NaN if a weight is NaN
FSum(weights) ==
  IF \E k \in DOMAIN weights : weights[k].nan THEN NaN
  ELSE FNum(SumOver([k \in DOMAIN weights |-> weights[k].v], DOMAIN weights))

WithinTolerance(total) == ~total.nan /\ 100 * Abs(total.v - WDen) <= WDen

\* C11: ParseDomainWeights either returns an error or returns a map whose
\* weights sum to a value within 0.01 of 1.0, also when the row names the
\* same domain more than once
C11_ReturnedWeightsSumToOne ==
  (parseOut # <<>> /\ ~parseOut[1].err) => WithinTolerance(FSum(parseOut[1].weights))

\* the attempt was submitted: the response and the stored answers it graded
Submitted == response # <<>>

ReportOf(k) == response[1].DetailedReport[k]

StoredAnswer(k) == AnswerOf(user_answers, k)

HasAnswer(k) == \E r \in user_answers : r.exam_question_id = k

\* C12: a single or truefalse question is graded correct if and only if the
\* stored answer selects exactly one choice, the question has exactly one
\* correct choice, and the selected choice is that one
C12_SingleChoiceCorrectIffTheOneCorrectChoice ==
  Submitted =>
    \A k \in 1..Len(examQs) :
      examQs[k].question_type \in {"single", "truefalse"} =>
        LET sel == StoredAnswer(k).choice_ids IN
        (ReportOf(k) = "correct") <=>
          (/\ Len(sel) = 1
           /\ Cardinality(examQs[k].correct) = 1
           /\ sel[1] \in examQs[k].correct)

C12_Witness ==
  /\ Submitted
  /\ examQs[1].question_type = "single"
  /\ ReportOf(1) = "correct"
  /\ response[1].ScorePercent = 100

\* C13: a multi question is graded correct if and only if the set of the
\* selected choice ids equals the set of the correct choice ids, whatever the
\* order and the repetitions of the stored selection list
C13_MultiCorrectIffSetsEqual ==
  Submitted =>
    \A k \in 1..Len(examQs) :
      examQs[k].question_type = "multi" =>
        ((ReportOf(k) = "correct") <=>
           (Range(StoredAnswer(k).choice_ids) = examQs[k].correct))

\* the text of the last request RecordAnswer stored for exam question k
SubmittedText(k) == lastReq[k].CommandText

C15_SkippedIffNoAnswer ==
  Submitted =>
    \A k \in 1..Len(examQs) : (ReportOf(k) = "skipped") <=> ~HasAnswer(k)

\* C15 (amended): a question is reported skipped if and only if the attempt
\* holds no answer for it, or the stored answer has no text and (choice
\* question) selects no choice of the question; every other question is
\* reported correct or incorrect
C15_SkippedIffNothingAnswered ==
  Submitted =>
    \A k \in 1..Len(examQs) :
      /\ ReportOf(k) \in {"correct", "incorrect", "skipped"}
      /\ (ReportOf(k) = "skipped") <=>
           (\/ ~HasAnswer(k)
            \/ /\ StoredAnswer(k).text_answer = <<>>
               /\ \/ examQs[k].question_type = "fillblank"
                  \/ Range(StoredAnswer(k).choice_ids) \cap examQs[k].choices = {})

C15_Witness ==
  /\ Submitted
  /\ examQs[1].question_type = "single"
  /\ HasAnswer(1)
  /\ StoredAnswer(1).choice_ids # <<>>
  /\ ReportOf(1) = "skipped"

\* the exam questions reported correct, all and of one domain
CorrectKs == {k \in 1..Len(examQs) : ReportOf(k) = "correct"}

KsOfDomain(d) == {k \in 1..Len(examQs) : examQs[k].domain_name = d}

ExamDomains == {examQs[k].domain_name : k \in 1..Len(examQs)}

\* s is the integer nearest to 100 * c / t, halves rounded up
IsRoundedPercent(s, c, t) ==
  /\ 2 * t * s <= 200 * c + t
  /\ 200 * c + t < 2 * t * (s + 1)

\* C16: the score of a submitted attempt is round(correctCount /
\* totalQuestions * 100), halves rounded up, an integer in 0..100, where
\* correctCount is the number of the exam's questions graded correct
C16_ScoreIsRoundedPercentage ==
  Submitted =>
    /\ response[1].ScorePercent \in 0..100
    /\ IsRoundedPercent(response[1].ScorePercent, Cardinality(CorrectKs),
                        Len(examQs))
    /\ attempt.score_percent = <<response[1].ScorePercent>>

\* C17: the attempt passes if and only if its rounded integer score is at
\* least passingScore, also for a passingScore that is not an integer
C17_PassIffScoreAtLeastPassingScore ==
  Submitted =>
    (response[1].Pass <=> 2 * response[1].ScorePercent >= passingScore2)

\* C18: the domain breakdown has one entry for every domain that has a
\* question in the exam, round(correctInDomain / totalInDomain * 100); a
\* domain without a correct answer has the entry 0
C18_BreakdownCoversEveryDomain ==
  Submitted =>
    /\ DOMAIN response[1].DomainBreakdown = ExamDomains
    /\ \A d \in ExamDomains :
         IsRoundedPercent(response[1].DomainBreakdown[d],
                          Cardinality(CorrectKs \cap KsOfDomain(d)),
                          Cardinality(KsOfDomain(d)))

\* C19: a completed attempt is terminal under every interleaving of
\* RecordAnswer and SubmitExamSession requests: once completed_at is set, no
\* answer of the attempt is inserted or overwritten, and completed_at and
\* score_percent never change
C19_CompletedAttemptIsTerminal ==
  [][~NotCompleted => (user_answers' = user_answers /\ attempt' = attempt)]_vars

\* C20: after any sequence of RecordAnswer calls the attempt holds at most
\* one answer per exam question, and that answer is the one of the most
\* recent successful RecordAnswer for it (choice list and text both)
C20_OneAnswerPerQuestionLastWins ==
  \A eq \in 1..Len(examQs) :
    /\ Cardinality({r \in user_answers : r.exam_question_id = eq}) <= 1
    /\ HasAnswer(eq) <=> eq \in DOMAIN lastReq
    /\ HasAnswer(eq) =>
         LET row == StoredAnswer(eq)
             req == lastReq[eq]
         IN  /\ Len(row.choice_ids) = Len(req.ChoiceIDs)
             /\ \A k \in 1..Len(req.ChoiceIDs) :
                  row.choice_ids[k] = Int32(req.ChoiceIDs[k])
             /\ row.text_answer = StringPtr(req.CommandText)

C20_Witness ==
  /\ HasAnswer(1)
  /\ overwrote
  /\ lastReq[1].ChoiceIDs = <<2, 1>>
  /\ StoredAnswer(1).choice_ids = <<2, 1>>
  /\ StoredAnswer(1).text_answer = <<>>

\* C21: in simulation mode every RecordAnswer stores the answer and returns
\* only {"saved": true}: no correctness, explanation, per-choice annotation
\* or hint; a graded report exists only once SubmitExamSession has completed
\* the attempt.
C21_SimulationAnswersGetNoFeedback ==
  attempt.mode = "simulation" =>
    /\ answerResp # <<>> => DOMAIN answerResp[1] = {"saved"}
    /\ \A eq \in DOMAIN lastReq : AnswerRow(eq, lastReq[eq]) \in user_answers
    /\ Submitted => ~NotCompleted

\* a simulation attempt whose stored answer was acknowledged and then graded
\* correct by the submission
C21_Witness ==
  /\ attempt.mode = "simulation"
  /\ answerResp = <<SavedResponse>>
  /\ HasAnswer(1)
  /\ Submitted
  /\ ReportOf(1) = "correct"

\* C27: the `correct` flag RecordAnswer returned in practice mode for the last
\* request on a question equals the verdict SubmitExamSession assigns to the
\* answer that request stored.
C27_PracticeFeedbackAgreesWithGrading ==
  (attempt.mode = "practice" /\ answerResp # <<>> /\ Submitted) =>
    (answerResp[1].Correct <=> ReportOf(1) = "correct")

\* the call skips: fewer than MinAttempts completed attempts, or the low
\* group (the first floor(n * threshold) attempts) or the high group is empty
Threshold ==
  IF thresholdSetting = <<>> THEN DefaultThreshold ELSE thresholdSetting[1]

MustSkip ==
  LET n == CompletedCount(attemptCounts)
      c == Threshold.hundredths
  IN  \/ n < 10
      \/ Threshold.inf
      \/ (n * c) \div 100 = 0
      \/ (n * c) \div 100 >= n

C23_ValidationErrorChangesNothing ==
  (pc = "failed" /\ err \in ValidationErrors) =>
    /\ courses = oldBank[1].courses
    /\ domainsTable = oldBank[1].domainsTable
    /\ questions = oldBank[1].questions
    /\ exams = oldExams
    /\ exam_questions = oldExamQuestions

\* C30: a completed attempt stays stored whatever ingestion or regeneration
\* of its course comes later.
C30_CompletedAttemptsSurviveRegeneration ==
  [][exam_attempts \subseteq exam_attempts']_vars

\* round(q * w) for the weight w / WDen: the integer nearest to the share,
\* a share of exactly one half more going up
RoundedShare(q, w) ==
  CHOOSE r \in 0..q : 2 * WDen * r - WDen <= 2 * q * w /\ 2 * q * w < 2 * WDen * r + WDen

\* C24: every returned plan has a candidate q in [min, max] whose rounded
\* shares are the quotas, a weighted domain whose share rounds to 0 getting
\* quota 1; so a weighted domain has quota at least 1 and a domain of
\* weight 0 has quota 0.
C24_QuotasAreRoundedShares ==
  HasPlan =>
    /\ \E q \in minQuestions..maxQuestions :
         \A d \in DOMAIN domainWeights :
           plan.PerDomainPerExam[d] =
             IF domainWeights[d] > 0 /\ RoundedShare(q, domainWeights[d]) = 0
             THEN 1 ELSE RoundedShare(q, domainWeights[d])
    /\ \A d \in DOMAIN domainWeights :
         /\ domainWeights[d] > 0 => plan.PerDomainPerExam[d] >= 1
         /\ domainWeights[d] = 0 => plan.PerDomainPerExam[d] = 0

\* a returned plan in which a weighted domain whose share rounds to 0 has
\* quota 1 whatever candidate is taken, next to a domain of weight 0
C24_Witness ==
  /\ HasPlan
  /\ \E d \in DOMAIN domainWeights :
       /\ domainWeights[d] > 0
       /\ plan.PerDomainPerExam[d] = 1
       /\ \A q \in minQuestions..maxQuestions : RoundedShare(q, domainWeights[d]) = 0
  /\ \E d \in DOMAIN domainWeights : domainWeights[d] = 0

\* the seeds GenerateExamsForCourse derives for the exams of the plan, and
\* the two ends of the generator's range
PlanSeeds == {SeedOf(k) : k \in 0..(plan.NumExams - 1)} \cup {0, RngMod - 1}

\* C26: a returned plan has at least one exam, needs no more questions than
\* the pool holds, and selectQuestionsForExam with the plan's quotas finds
\* enough unique questions whatever the seed and the map order (the
\* questions of the pool all belong to domains of the weight map).
C26_PlanCanBeSelected ==
  (HasPlan /\ \A k \in DOMAIN questions :
                questions[k].QuestionDomainName \in DOMAIN domainWeights) =>
    /\ plan.NumExams >= 1
    /\ plan.NumExams * plan.QuestionsPerExam <= Len(questions)
    /\ \A seed \in PlanSeeds :
         \A order \in Orders(DOMAIN plan.PerDomainPerExam) :
           LET res == selectQuestionsForExam(questions, plan.PerDomainPerExam, seed, order)
           IN ~res.err /\ Len(res.selected) = plan.QuestionsPerExam

\* a returned plan that takes every question of one domain and questions of
\* a second domain for each exam
C26_Witness ==
  /\ HasPlan
  /\ \E d, e \in DOMAIN domainWeights :
       /\ d # e
       /\ plan.PerDomainPerExam[d] = domainCounts(questions, d)
       /\ plan.PerDomainPerExam[d] >= 2
       /\ plan.PerDomainPerExam[e] >= 1
  /\ \A seed \in PlanSeeds :
       \A order \in Orders(DOMAIN plan.PerDomainPerExam) :
         ~selectQuestionsForExam(questions, plan.PerDomainPerExam, seed, order).err

\* C29: every stored answer of the attempt refers to an exam question of the
\* exam the attempt was started on.
C29_AnswersBelongToTheAttemptsExam ==
  \A r \in user_answers : r.exam_question_id \in DOMAIN examQs

\* both passes returned nil
BothRunsDone == \A p \in Runs : gen[p].pc = "done"

\* C28: after two overlapping passes for the course have both finished
\* successfully, the stored exams are one complete set of plan.NumExams
\* exams, no title twice.
C28_OverlappingRunsLeaveOneSet ==
  BothRunsDone =>
    /\ \A p \in Runs : Len(exams) = gen[p].plan.NumExams
    /\ \A a, b \in DOMAIN exams : exams[a].title = exams[b].title => a = b

\* the passes a job has logged for a target at a tick
PassesAt(job, t, target) ==
  {n \in DOMAIN runLog[job] :
     runLog[job][n].tick = t /\ runLog[job][n].target = target}

FailedAt(job, t, target) ==
  \E n \in PassesAt(job, t, target) : ~runLog[job][n].ok

\* no target has two passes at one tick
OnePassPerTick ==
  \A job \in Jobs : \A t \in 1..MaxTicks : \A k \in DOMAIN Targets(job) :
    Cardinality(PassesAt(job, t, Targets(job)[k])) <= 1

\* the job is in the loop of tick t
Listed(job, t) == schedTick[job] = t /\ schedIdx[job] > 0

\* C25: a failed pass is not retried within its tick; the loop goes on to
\* the remaining courses of the tick, and the failed course (or the failed
\* validity job) has its next pass at a later tick, the next one whose loop
\* runs.
C25_FailedPassWaitsForNextTick ==
  /\ []OnePassPerTick
  /\ \A t \in 1..MaxTicks : \A k \in DOMAIN CourseCodes : \A m \in DOMAIN CourseCodes :
       (m > k /\ FailedAt("ingestion", t, CourseCodes[k]))
         ~> (PassesAt("ingestion", t, CourseCodes[m]) # {})
  /\ \A job \in Jobs : \A t \in 1..MaxTicks : \A u \in 1..MaxTicks :
       \A k \in DOMAIN Targets(job) :
         (u > t /\ FailedAt(job, t, Targets(job)[k]) /\ Listed(job, u))
           ~> (PassesAt(job, u, Targets(job)[k]) # {})

\* the first course failed at the first tick, the second course had its
\* pass at that tick, the first course had its next pass at the second tick;
\* the validity job failed at its first tick and ran again at its second
C25_Witness ==
  /\ FailedAt("ingestion", 1, CourseCodes[1])
  /\ PassesAt("ingestion", 1, CourseCodes[2]) # {}
  /\ PassesAt("ingestion", 2, CourseCodes[1]) # {}
  /\ FailedAt("validity", 1, "all_questions")
  /\ PassesAt("validity", 2, "all_questions") # {}
  /\ OnePassPerTick

====
